---- MODULE Spec2Model ----
(***************************************************************************)
(* Request gate (Astro middleware `onRequest`) of the InkQ frontend:       *)
(* session resolution against /api/v1/auth/me and the per-request          *)
(* allow/redirect decision.                                                *)
(*                                                                         *)
(* Strings are modelled as sequences of chunks.  The chunk alphabet is     *)
(* prefix-free ("/" occurs only as the chunk "/"), so `startsWith`,        *)
(* `===`, `includes` and the unanchored regular-expression search of the   *)
(* source coincide with prefix, equality and sub-sequence search on chunk  *)
(* sequences.  The chunk "x" stands for any further characters.            *)
(***************************************************************************)
EXTENDS Integers, Sequences, FiniteSets, TLC

\* ------------------------------------------------------------------ bounds
\* Largest number of path segments of a generated request path.
MaxSegments == 3
\* Number of clock observations between issuing the fetch and the timer.
TimeSteps == 2

\* ------------------------------------------------------- program constants
timeoutMs == 4000
REDIRECT_STATUS == 302

cookieName == "inkq_session"

\* ------------------------------------------------------------ value domains
Langs == {"en", "ru"}
AccountTypes == {"artist", "studio", "model"}

\* JavaScript `null` / `undefined` for a user object and for a status.
NoUser == [id |-> 0, account_type |-> "none", onboarding_completed |-> FALSE]
StatusNull == 0

\* interface User: the fields the gate reads.
Users ==
  { [id |-> 1, account_type |-> "artist", onboarding_completed |-> FALSE],
    [id |-> 2, account_type |-> "artist", onboarding_completed |-> TRUE],
    [id |-> 3, account_type |-> "studio", onboarding_completed |-> FALSE],
    [id |-> 4, account_type |-> "studio", onboarding_completed |-> TRUE],
    [id |-> 5, account_type |-> "model",  onboarding_completed |-> FALSE],
    [id |-> 6, account_type |-> "model",  onboarding_completed |-> TRUE] }

\* The request's cookie jar for `inkq_session`: no cookie, an empty value,
\* or a token.
RequestCookies == { <<>>, <<"">>, <<"t1">> }

\* Answers of GET /api/v1/auth/me as the gate's fetch sees them.
MeStatuses == {200, 401, 403, 404, 500}
MeResponses ==
  { [status |-> 200, body |-> "json", json |-> u] : u \in Users }
    \cup { [status |-> 200, body |-> "unparsable", json |-> NoUser] }
    \cup { [status |-> s, body |-> "json", json |-> NoUser] : s \in MeStatuses \ {200} }

\* ------------------------------------------------------------ request paths
\* Segments a generated path may carry at each position.
LocaleSegments == { <<"en">>, <<"ru">>, <<"x">> }
SectionSegments ==
  { <<"dashboard">>, <<"onboarding">>, <<"signin">>, <<"signup">>, <<"x">>,
    <<"dashboard", "x">> }
RoleSegments ==
  { <<"artist">>, <<"studio">>, <<"model">>, <<"x">>, <<"artist", "x">>,
    <<"dashboard">> }
DeepSegments == { <<"artist">>, <<"x">> }

SegmentsAt(n) ==
  IF n = 1 THEN LocaleSegments
  ELSE IF n = 2 THEN SectionSegments
  ELSE IF n = 3 THEN RoleSegments
  ELSE DeepSegments

RECURSIVE PathsOfSegments(_)
PathsOfSegments(n) ==
  IF n = 0 THEN { <<>> }
  ELSE { p \o <<"/">> \o s : p \in PathsOfSegments(n - 1), s \in SegmentsAt(n) }

\* Paths under the infrastructure prefixes, and their near misses.
InfrastructurePathnames ==
  UNION { { <<"/", s>>, <<"/", s, "/">>, <<"/", s, "/", "x">> } :
            s \in {"api", "assets", "_astro", "node_modules"} }
    \cup { <<"/", "favicon.", "x">>, <<"/", "en", "/", "api", "/", "x">> }

\* url.pathname values: "/", 1..MaxSegments segments with or without a
\* trailing slash, and the infrastructure paths.
Pathnames ==
  { <<"/">> }
    \cup UNION { PathsOfSegments(n) : n \in 1..MaxSegments }
    \cup UNION { { p \o <<"/">> : p \in PathsOfSegments(n) } : n \in 1..MaxSegments }
    \cup InfrastructurePathnames

\* ---------------------------------------------------------- string helpers
\* String.prototype.startsWith
startsWith(s, prefix) ==
  /\ Len(prefix) <= Len(s)
  /\ SubSeq(s, 1, Len(prefix)) = prefix


\* Array.prototype.join over the chunks of a template literal.
RECURSIVE Concat(_)
Concat(parts) ==
  IF parts = <<>> THEN <<>> ELSE Head(parts) \o Concat(Tail(parts))

\* ------------------------------------------------------ path classification
PUBLIC_PATHS ==
  { <<"/">>, <<"/", "en">>, <<"/", "ru">>,
    <<"/", "en", "/", "signin">>, <<"/", "ru", "/", "signin">>,
    <<"/", "en", "/", "signup">>, <<"/", "ru", "/", "signup">> }

PROTECTED_PREFIXES ==
  { <<"/", "en", "/", "dashboard">>, <<"/", "ru", "/", "dashboard">>,
    <<"/", "en", "/", "onboarding">>, <<"/", "ru", "/", "onboarding">> }

SKIP_PATHS ==
  { <<"/", "api", "/">>, <<"/", "assets", "/">>, <<"/", "favicon.">>,
    <<"/", "_astro", "/">>, <<"/", "node_modules", "/">> }

\* Variant: '/api/' is missing from SKIP_PATHS.
shouldSkipPath_NoApi(p) == \E skip \in SKIP_PATHS \ { <<"/", "api", "/">> } : startsWith(p, skip)

shouldSkipPath(p) == \E skip \in SKIP_PATHS : startsWith(p, skip)

\* Variant: public paths are matched as prefixes, like the protected ones.
isPublicPath_Prefix(p) == \E q \in PUBLIC_PATHS : startsWith(p, q)

isPublicPath(p) == p \in PUBLIC_PATHS \/ p = <<"/">>

\* Variant: the onboarding prefixes are missing from PROTECTED_PREFIXES.
isProtectedPath_DashboardOnly(p) ==
  \E prefix \in { <<"/", "en", "/", "dashboard">>, <<"/", "ru", "/", "dashboard">> } :
     startsWith(p, prefix)

isProtectedPath(p) == \E prefix \in PROTECTED_PREFIXES : startsWith(p, prefix)

\* Variant: the language is not read from the path.
extractLang_AlwaysEn(p) == "en"

\* pathname.match(/^\/(en|ru)/), default 'en'
extractLang(p) ==
  IF \E l \in Langs : startsWith(p, <<"/", l>>)
  THEN CHOOSE l \in Langs : startsWith(p, <<"/", l>>)
  ELSE "en"

\* pathname.match(/\/dashboard\/(artist|studio|model)/): the capture group of
\* the leftmost match, or "" when there is none.
NoRoleMatch == ""
RoleMatchAt(p, i) ==
  /\ i + 3 <= Len(p)
  /\ SubSeq(p, i, i + 2) = <<"/", "dashboard", "/">>
  /\ p[i + 3] \in AccountTypes
roleMatch(p) ==
  IF \E i \in 1..Len(p) : RoleMatchAt(p, i)
  THEN LET first == CHOOSE i \in 1..Len(p) :
                      /\ RoleMatchAt(p, i)
                      /\ \A j \in 1..(i - 1) : ~RoleMatchAt(p, j)
       IN p[first + 3]
  ELSE NoRoleMatch

\* ------------------------------------------------------- redirect targets
\* Variant: a user who has not completed onboarding is sent to the dashboard.
onboardingPath_Dashboard(l, u) == Concat(<< <<"/">>, <<l>>, <<"/", "dashboard", "/">>, <<u.account_type>> >>)
\* Variant: the onboarding target is built from the role in the URL's place,
\* without the user's role.
onboardingPath_NoRole(l, u) == Concat(<< <<"/">>, <<l>>, <<"/", "onboarding">> >>)
\* `/${lang}/onboarding/${user.account_type}`
onboardingPath(l, u) == Concat(<< <<"/">>, <<l>>, <<"/", "onboarding", "/">>, <<u.account_type>> >>)
\* Variant: a completed user is sent to onboarding as well.
dashboardPath_Onboarding(l, u) ==
  Concat(<< <<"/">>, <<l>>, <<"/", "onboarding", "/">>, <<u.account_type>> >>)
\* `/${lang}/dashboard/${user.account_type}`
dashboardPath(l, u) == Concat(<< <<"/">>, <<l>>, <<"/", "dashboard", "/">>, <<u.account_type>> >>)

\* URLSearchParams.toString() of one pair: application/x-www-form-urlencoded,
\* a space in the value becomes "+".
FormEncode(value) == [i \in 1..Len(value) |-> IF value[i] = " " THEN "+" ELSE value[i]]
URLSearchParamsToString(key, value) == <<key, "=">> \o FormEncode(value)

SessionExpiredParam == URLSearchParamsToString("error", <<"Session", " ", "expired">>)
AuthRequiredParam == URLSearchParamsToString("reason", <<"auth_required">>)

\* Variant: the earlier gate, every protected redirect says auth_required.
signinRedirectTarget_AlwaysAuthRequired(l, had, status) ==
  Concat(<< <<"/">>, <<l>>, <<"/", "signin", "?">>, AuthRequiredParam >>)
\* Variant: the two indicators are swapped.
signinRedirectTarget_Swapped(l, had, status) ==
  Concat(<< <<"/">>, <<l>>, <<"/", "signin", "?">>,
            IF had /\ (status = 401 \/ status = 403)
            THEN AuthRequiredParam ELSE SessionExpiredParam >>)
\* `/${lang}/signin?${urlSearch.toString()}` of the protected branch
signinRedirectTarget(l, had, status) ==
  Concat(<< <<"/">>, <<l>>, <<"/", "signin", "?">>,
            IF had /\ (status = 401 \/ status = 403)
            THEN SessionExpiredParam ELSE AuthRequiredParam >>)

\* -------------------------------------------------------------------- state
VARIABLES
  PROD,           \* import.meta.env.PROD (DEV is its negation)
  apiUrlMissing,  \* getApiUrl() throws: DEV without INKQ_API_URL
  pc,             \* "idle" | "awaitMe" | "awaitNext" | "done"
  pathname,       \* url.pathname of the request
  cookie,         \* request value of inkq_session: <<>> or <<value>>
  lang,           \* extractLang(pathname)
  hadCookie,      \* !!token
  user,           \* resolved user, NoUser for null
  meStatus,       \* result.status, StatusNull for null
  meTimedOut,     \* result.timedOut
  clearedCookie,
  locals,         \* context.locals
  setCookies,     \* cookie changes the response carries
  response,       \* what onRequest returned
  wrapNext,       \* the awaited next() response passes through withDevAuthHeader
  nextCalls,      \* invocations of next()
  fetchCalls,     \* requests sent to /api/v1/auth/me
  authorization,  \* Authorization header of the fetch
  timerArmed,     \* setTimeout(() => controller.abort(), timeoutMs) pending
  elapsed         \* ms since the fetch was issued

\* The backend's session store and the last answer of its auth endpoints.
VARIABLES
  sessions,       \* rows of the sessions table
  issued,         \* every token createSession has generated
  revoked,        \* tokens whose row a sign-out deleted
  now,            \* the backend's clock, in days
  reply           \* last answer of /auth/signin, /auth/me or /auth/signout

gateVars ==
  << PROD, apiUrlMissing, pc, pathname, cookie, lang, hadCookie, user, meStatus, meTimedOut,
     clearedCookie, locals, setCookies, response, wrapNext, nextCalls,
     fetchCalls, authorization, timerArmed, elapsed >>

storeVars == << sessions, issued, revoked, now, reply >>

\* One POST to a form endpoint (sign-in, sign-up, sign-out) being handled.
VARIABLES
  hpc,            \* "idle" | "awaitSignup" | "awaitSignin" | "awaitSignout" | "done"
  req,            \* the request: endpoint, handler, form fields, Referer, cookie
  calls,          \* backend endpoints the handler has fetched, in order
  answers,        \* the backend's answers to them, in order
  hresponse,      \* what the handler returned
  hcookies        \* cookie changes the response carries

formVars == << hpc, req, calls, answers, hresponse, hcookies >>

\* A chain of requests: the browser follows the gate's redirects.
VARIABLES
  chain           \* redirects followed so far, the request that follows, the
                  \* resolution outcome of the request before it

\* Two requests in flight in the one server process.
VARIABLES
  inflight,       \* the context of each invocation of onRequest
  sent            \* what each client sent and what /me answered it

\* Backend calls in progress, each a sequence of row operations.
VARIABLES
  tasks

chainVars == << chain >>
pairVars == << inflight, sent >>
raceVars == << tasks >>
restVars == << chainVars, pairVars, raceVars >>

vars == << gateVars, storeVars, formVars, restVars >>

NoRequest ==
  [endpoint |-> "none", handler |-> "none", page |-> <<>>, referer |-> <<>>, lang |-> "",
   token |-> "", login |-> "", email |-> "", username |-> "", password |-> "",
   accountType |-> ""]

\* No token: the value of a reply that carries none.
NoToken == 0
NoReply ==
  [op |-> "none", token |-> NoToken, kind |-> "none", user |-> NoUser,
   status |-> StatusNull, cause |-> "none"]

NoResult == [user |-> NoUser, status |-> StatusNull, timedOut |-> FALSE]
NoChain == [hops |-> 0, pathname |-> <<>>, cookie |-> <<>>, result |-> NoResult]

\* The two invocations of onRequest that overlap.
Requests == {1, 2}
NoSent == [pathname |-> <<>>, cookie |-> <<>>, result |-> NoResult]

\* The backend calls that overlap.
Tasks == {1, 2}
NoTask ==
  [op |-> "none", pc |-> "idle", token |-> NoToken, known |-> FALSE, row |-> <<>>,
   wrote |-> 0 - 1, result |-> [kind |-> "none", user |-> NoUser]]

NoLocals == [user |-> NoUser, currentUser |-> NoUser, sessionToken |-> ""]
NoResponse == [type |-> "none", status |-> 0, location |-> <<>>, xInkqAuth |-> <<>>]

NoContext ==
  [pc |-> "idle", pathname |-> <<>>, cookie |-> <<>>, result |-> NoResult,
   cleared |-> FALSE, wrap |-> FALSE, locals |-> NoLocals, setCookies |-> <<>>,
   response |-> NoResponse]

\* Variant: a cookie with an empty value counts as a token.
tokenOf_AnyCookie(c) == IF c = <<>> THEN "" ELSE "t1"
\* cookies.get(cookieName)?.value, "" for undefined
tokenOf(c) == IF c = <<>> THEN "" ELSE c[1]

Init ==
  /\ PROD \in BOOLEAN
  /\ apiUrlMissing \in (IF PROD THEN {FALSE} ELSE BOOLEAN)
  /\ pc = "idle"
  /\ pathname = <<>>
  /\ cookie = <<>>
  /\ lang = ""
  /\ hadCookie = FALSE
  /\ user = NoUser
  /\ meStatus = StatusNull
  /\ meTimedOut = FALSE
  /\ clearedCookie = FALSE
  /\ locals = NoLocals
  /\ setCookies = <<>>
  /\ response = NoResponse
  /\ wrapNext = FALSE
  /\ nextCalls = 0
  /\ fetchCalls = 0
  /\ authorization = <<>>
  /\ timerArmed = FALSE
  /\ elapsed = 0
  /\ sessions = {}
  /\ issued = {}
  /\ revoked = {}
  /\ now = 0
  /\ reply = NoReply
  /\ hpc = "idle"
  /\ req = NoRequest
  /\ calls = <<>>
  /\ answers = <<>>
  /\ hresponse = NoResponse
  /\ hcookies = <<>>
  /\ chain = NoChain
  /\ inflight = [i \in Requests |-> NoContext]
  /\ sent = [i \in Requests |-> NoSent]
  /\ tasks = [k \in Tasks |-> NoTask]

\* ------------------------------------------------------------ the decision
\* withDevAuthHeader: X-InkQ-Auth is set outside production only.
withDevAuthHeader(resp, p, had, status, timedOut, cleared) ==
  IF ~PROD
  THEN [resp EXCEPT !.xInkqAuth =
          << [path |-> p, cookie |-> had, me_status |-> status,
              me_timeout |-> timedOut, cleared |-> cleared] >>]
  ELSE resp

\* context.redirect(target, 302)
redirect(target, status) ==
  [type |-> "redirect", status |-> status, location |-> target, xInkqAuth |-> <<>>]

\* The response of the downstream handler, opaque to the gate.
nextResponse == [type |-> "next", status |-> 0, location |-> <<>>, xInkqAuth |-> <<>>]

Forward(wrap) == [kind |-> "next", target |-> <<>>, wrap |-> wrap]
RedirectTo(target, wrap) == [kind |-> "redirect", target |-> target, wrap |-> wrap]

\* Variant: sign-in and sign-up always lead on to the dashboard.
DecidePublic_AlwaysDashboard(p, l, u) ==
  IF u # NoUser /\ (p = <<"/", l, "/", "signin">> \/ p = <<"/", l, "/", "signup">>)
  THEN RedirectTo(dashboardPath(l, u), TRUE)
  ELSE Forward(TRUE)
\* Variant: the check for a user is missing on sign-in and sign-up.
DecidePublic_NoUserCheck(p, l, u) ==
  IF p = <<"/", l, "/", "signin">> \/ p = <<"/", l, "/", "signup">>
  THEN RedirectTo(IF ~u.onboarding_completed
                  THEN onboardingPath(l, u) ELSE dashboardPath(l, u), TRUE)
  ELSE Forward(TRUE)

\* Lines 209-223: a public path.
DecidePublic(p, l, u) ==
  IF u # NoUser /\ (p = <<"/", l, "/", "signin">> \/ p = <<"/", l, "/", "signup">>)
  THEN RedirectTo(IF ~u.onboarding_completed
                  THEN onboardingPath(l, u) ELSE dashboardPath(l, u), TRUE)
  ELSE Forward(TRUE)

\* Lines 229-238: a protected path without a user.
DecideUnauthenticated(l, had, status) ==
  RedirectTo(signinRedirectTarget(l, had, status), TRUE)

\* Variant ("option B"): a completed user is sent on to the dashboard.
DecideOnboarding_BlockCompleted(l, u) ==
  IF u.onboarding_completed THEN RedirectTo(dashboardPath(l, u), TRUE) ELSE Forward(TRUE)
\* Variant: an onboarding path always leads to the onboarding of the user's
\* own role.
DecideOnboarding_OwnRole(l, u) == RedirectTo(onboardingPath(l, u), TRUE)
\* Lines 241-246: an onboarding path with a user.
DecideOnboarding(l, u) == Forward(TRUE)

\* Lines 249-266: a dashboard path with a user.  The redirect of line 252 is
\* returned without withDevAuthHeader.
DecideDashboard(p, l, u) ==
  IF ~u.onboarding_completed
  THEN RedirectTo(onboardingPath(l, u), FALSE)
  ELSE IF roleMatch(p) # NoRoleMatch /\ roleMatch(p) # u.account_type
  THEN RedirectTo(dashboardPath(l, u), TRUE)
  ELSE Forward(TRUE)

\* onRequest, lines 208-271: what the gate does once the user is resolved.
\* wrap tells whether the response passes through withDevAuthHeader.
Decide(p, l, u, had, status) ==
  IF isPublicPath(p)
  THEN DecidePublic(p, l, u)
  ELSE IF isProtectedPath(p)
  THEN IF u = NoUser
       THEN DecideUnauthenticated(l, had, status)
       ELSE IF startsWith(p, <<"/", l, "/", "onboarding">>)
       THEN DecideOnboarding(l, u)
       ELSE IF startsWith(p, <<"/", l, "/", "dashboard">>)
       THEN DecideDashboard(p, l, u)
       ELSE Forward(TRUE)
  ELSE Forward(TRUE)

\* Variant: resolveUser never reads the body.
resultOfResponse_NoBody(r) == [user |-> NoUser, status |-> r.status, timedOut |-> FALSE]
\* Variant: a 2xx answer stands for one fixed user.
resultOfResponse_FixedUser(r) ==
  IF r.status \in 200..299
  THEN [user |-> CHOOSE u \in Users : u.id = 1, status |-> r.status, timedOut |-> FALSE]
  ELSE [user |-> NoUser, status |-> r.status, timedOut |-> FALSE]
\* resolveUser's return value for an answer of the fetch.
resultOfResponse(r) ==
  IF r.status \in 200..299
  THEN IF r.body = "json"
       THEN [user |-> r.json, status |-> r.status, timedOut |-> FALSE]
       ELSE [user |-> NoUser, status |-> StatusNull, timedOut |-> FALSE]
  ELSE [user |-> NoUser, status |-> r.status, timedOut |-> FALSE]

\* Variant: every rejected fetch is reported as a timeout.
resultOfError_AlwaysTimedOut(name) == [user |-> NoUser, status |-> StatusNull, timedOut |-> TRUE]
\* resolveUser's return value when the fetch rejects; name is error.name.
resultOfError(name) ==
  [user |-> NoUser, status |-> StatusNull, timedOut |-> (name = "AbortError")]

\* cookies.delete(cookieName, { path: '/' })
cookiesDelete(name) == [op |-> "delete", name |-> name, options |-> {<<"path", "/">>}]

\* Variant: the earlier gate, any failed resolution clears the cookie.
shouldClearCookie_AnyFailure(result) == result.user = NoUser
\* Variant: only a 401 clears the cookie.
shouldClearCookie_Only401(result) == result.user = NoUser /\ result.status = 401
\* The gate clears the cookie when /me said 401 or 403.
shouldClearCookie(result) ==
  result.user = NoUser /\ (result.status = 401 \/ result.status = 403)

\* onRequest from line 170 (or from line 192 without a token) to its next
\* await or its return.
Proceed(result, resolved) ==
  LET clear == resolved /\ shouldClearCookie(result)
      d == Decide(pathname', lang', result.user, hadCookie', result.status)
  IN /\ user' = result.user
     /\ meStatus' = result.status
     /\ meTimedOut' = result.timedOut
     /\ clearedCookie' = clear
     /\ setCookies' = IF clear THEN Append(setCookies, cookiesDelete(cookieName))
                      ELSE setCookies
     /\ locals' = IF resolved /\ result.user # NoUser
                  THEN [user |-> result.user, currentUser |-> result.user,
                        sessionToken |-> tokenOf(cookie')]
                  ELSE locals
     /\ IF d.kind = "redirect"
        THEN /\ response' =
                  IF d.wrap
                  THEN withDevAuthHeader(redirect(d.target, REDIRECT_STATUS), pathname',
                                         hadCookie', result.status, result.timedOut, clear)
                  ELSE redirect(d.target, REDIRECT_STATUS)
             /\ pc' = "done"
             /\ UNCHANGED <<nextCalls, wrapNext>>
        ELSE /\ nextCalls' = nextCalls + 1
             /\ wrapNext' = d.wrap
             /\ pc' = "awaitNext"
             /\ UNCHANGED response

\* ------------------------------------------------------------------ actions
\* Time observed while the fetch is pending, capped at the timer's deadline.
Min(a, b) == IF a <= b THEN a ELSE b

\* onRequest is invoked for a request: lines 136-169, up to the first await.
OnRequest(p, c) ==
  /\ pc = "idle"
  /\ UNCHANGED storeVars
  /\ UNCHANGED formVars
  /\ UNCHANGED restVars
  /\ pathname' = p
  /\ cookie' = c
  /\ UNCHANGED << PROD, apiUrlMissing >>
  /\ IF shouldSkipPath(p)
     THEN \* return next()
          /\ nextCalls' = nextCalls + 1
          /\ wrapNext' = FALSE
          /\ pc' = "awaitNext"
          /\ UNCHANGED << lang, hadCookie, user, meStatus, meTimedOut, clearedCookie,
                          locals, setCookies, response, fetchCalls, authorization,
                          timerArmed, elapsed >>
     ELSE /\ lang' = extractLang(p)
          /\ hadCookie' = (tokenOf(c) # "")
          /\ IF tokenOf(c) # ""
             THEN IF apiUrlMissing
                  THEN \* resolveUser: resolveBackendUrl throws inside the try,
                       \* the catch block answers, finally clears the timer
                       /\ Proceed(resultOfError("Error"), TRUE)
                       /\ UNCHANGED << fetchCalls, authorization, timerArmed, elapsed >>
                  ELSE \* resolveUser: arm the timer, issue the fetch, await it
                       /\ timerArmed' = TRUE
                       /\ elapsed' = 0
                       /\ fetchCalls' = fetchCalls + 1
                       /\ authorization' = <<"Bearer", tokenOf(c)>>
                       /\ pc' = "awaitMe"
                       /\ UNCHANGED << user, meStatus, meTimedOut, clearedCookie, locals,
                                       setCookies, response, wrapNext, nextCalls >>
             ELSE /\ Proceed([user |-> NoUser, status |-> StatusNull, timedOut |-> FALSE],
                             FALSE)
                  /\ UNCHANGED << fetchCalls, authorization, timerArmed, elapsed >>

\* Wall-clock time passes while the fetch is pending.
Tick ==
  /\ pc = "awaitMe"
  /\ UNCHANGED storeVars
  /\ UNCHANGED formVars
  /\ UNCHANGED restVars
  /\ elapsed < timeoutMs
  /\ elapsed' = Min(elapsed + (timeoutMs \div TimeSteps), timeoutMs)
  /\ UNCHANGED << PROD, apiUrlMissing, pc, pathname, cookie, lang, hadCookie, user, meStatus,
                  meTimedOut, clearedCookie, locals, setCookies, response, wrapNext,
                  nextCalls, fetchCalls, authorization, timerArmed >>

\* /api/v1/auth/me answers r before the abort: resolveUser lines 102-117
\* (a body that does not parse lands in the catch block), finally, then
\* onRequest continues.
MeResponds(r) ==
  /\ pc = "awaitMe"
  /\ UNCHANGED storeVars
  /\ UNCHANGED formVars
  /\ UNCHANGED restVars
  /\ timerArmed' = FALSE
  /\ elapsed' = 0
  /\ UNCHANGED << PROD, apiUrlMissing, pathname, cookie, lang, hadCookie, fetchCalls, authorization >>
  /\ Proceed(resultOfResponse(r), TRUE)

\* The fetch rejects without an answer (connection refused, DNS, reset).
FetchFails ==
  /\ pc = "awaitMe"
  /\ UNCHANGED storeVars
  /\ UNCHANGED formVars
  /\ UNCHANGED restVars
  /\ timerArmed' = FALSE
  /\ elapsed' = 0
  /\ UNCHANGED << PROD, apiUrlMissing, pathname, cookie, lang, hadCookie, fetchCalls, authorization >>
  /\ Proceed(resultOfError("TypeError"), TRUE)

\* Variant: the earlier resolveUser, a fetch without abort signal or timer.
TimerEnabled_NoTimer == FALSE
\* The timer fires, controller.abort() rejects the fetch with an AbortError.
TimerEnabled == timerArmed /\ elapsed >= timeoutMs
AbortTimeout ==
  /\ pc = "awaitMe"
  /\ UNCHANGED storeVars
  /\ UNCHANGED formVars
  /\ UNCHANGED restVars
  /\ TimerEnabled
  /\ timerArmed' = FALSE
  /\ elapsed' = 0
  /\ UNCHANGED << PROD, apiUrlMissing, pathname, cookie, lang, hadCookie, fetchCalls, authorization >>
  /\ Proceed(resultOfError("AbortError"), TRUE)

\* The downstream handler answers; the gate returns its response.
NextReturns ==
  /\ pc = "awaitNext"
  /\ UNCHANGED storeVars
  /\ UNCHANGED formVars
  /\ UNCHANGED restVars
  /\ response' = IF wrapNext
                 THEN withDevAuthHeader(nextResponse, pathname, hadCookie, meStatus,
                                        meTimedOut, clearedCookie)
                 ELSE nextResponse
  /\ pc' = "done"
  /\ UNCHANGED << PROD, apiUrlMissing, pathname, cookie, lang, hadCookie, user, meStatus, meTimedOut,
                  clearedCookie, locals, setCookies, wrapNext, nextCalls, fetchCalls,
                  authorization, timerArmed, elapsed >>

Next ==
  \/ \E p \in Pathnames, c \in RequestCookies : OnRequest(p, c)
  \/ Tick
  \/ \E r \in MeResponses : MeResponds(r)
  \/ FetchFails
  \/ AbortTimeout
  \/ NextReturns

Spec == Init /\ [][Next]_vars

\* The runtime's clock advances and its event loop runs a due timer; the
\* backend is under no obligation to answer.
LiveSpec == Spec /\ WF_vars(Tick) /\ WF_vars(AbortTimeout) /\ WF_vars(NextReturns)

TypeOK ==
  /\ pc \in {"idle", "awaitMe", "awaitNext", "done"}
  /\ user \in Users \cup {NoUser}
  /\ meStatus \in MeStatuses \cup {StatusNull}
  /\ nextCalls \in 0..1
  /\ fetchCalls \in 0..1
  /\ elapsed \in 0..timeoutMs

\* ================================================== backend session service
\* The FastAPI backend behind /api/v1/auth/*: its users, its sessions table
\* and the three auth endpoints the frontend calls.

\* Tokens the generator can produce, and the last day of the clock.
MaxSessions == 2
MaxNow == 7

\* Session lifetime in days.
SESSION_TTL_DAYS == 7

\* secrets.token_urlsafe(32) values.
Tokens == 1..MaxSessions
\* Bearer tokens a client may present: generated ones and one that no
\* generator call ever returns.
PresentedTokens == 1..(MaxSessions + 1)

\* Days the clock may jump between two backend calls.
ClockSteps == {3, 4}

\* Rows of the users table that can sign in.
Accounts ==
  { [user |-> [id |-> 1, account_type |-> "artist", onboarding_completed |-> FALSE],
     email |-> "a@x", username |-> "a", password |-> "pa"],
    [user |-> [id |-> 4, account_type |-> "studio", onboarding_completed |-> TRUE],
     email |-> "b@x", username |-> "b", password |-> "pb"] }

\* Values of the login and password fields of a sign-in request.
Logins == {"a@x", "a", "b", "nobody"}
Passwords == {"pa", "pb"}

\* Variant: an unknown login is reported apart from a wrong password.
resolveCredentials_ReportUnknown(login, password) ==
  LET matches == { a \in Accounts : a.email = login \/ a.username = login }
  IN  IF matches = {}
      THEN [ok |-> FALSE, user |-> NoUser, status |-> 404, detail |-> "user_not_found",
            cause |-> "unknown_login"]
      ELSE LET a == CHOOSE m \in matches : TRUE
           IN  IF a.password = password
               THEN [ok |-> TRUE, user |-> a.user, status |-> 200, detail |-> "",
                     cause |-> "none"]
               ELSE [ok |-> FALSE, user |-> NoUser, status |-> 401,
                     detail |-> "invalid_credentials", cause |-> "wrong_password"]
\* Credential verifier: lookup by email or username, then the password
\* check; a miss and a mismatch are the same failure.  cause records which
\* of the two happened and is not part of the answer.
resolveCredentials(login, password) ==
  LET matches == { a \in Accounts : a.email = login \/ a.username = login }
  IN  IF Cardinality(matches) = 1 /\ (CHOOSE m \in matches : TRUE).password = password
      THEN [ok |-> TRUE, user |-> (CHOOSE m \in matches : TRUE).user, status |-> 200,
            detail |-> "", cause |-> "none"]
      ELSE [ok |-> FALSE, user |-> NoUser, status |-> 401, detail |-> "invalid_credentials",
            cause |-> IF matches = {} THEN "unknown_login" ELSE "wrong_password"]

\* The least of a set of tokens, as a set; empty when there is none.
firstOf(ts) == { t \in ts : \A o \in ts : t <= o }

\* Variant: the generator only avoids tokens of rows that exist now.
generateToken_AvoidLiveOnly == firstOf(Tokens \ { s.token : s \in sessions })
\* The token a generator call returns: a random value of 32 bytes, taken as
\* one that no earlier call returned (tokens are opaque, so the first unused
\* one stands for it).
generateToken == firstOf(Tokens \ { i.token : i \in issued })

\* The row createSession inserts.
sessionRow(t, u) ==
  [token |-> t, user_id |-> u.id, created_at |-> now,
   expires_at |-> now + SESSION_TTL_DAYS, last_seen_at |-> now]

\* Variant: signing in ends the user's other sessions.
createSession_SinglePerUser(u, t) ==
  { s \in sessions : s.user_id # u.id } \cup { sessionRow(t, u) }
\* createSession: the table after the insert.
createSession(u, t) == sessions \cup { sessionRow(t, u) }

\* Rows whose primary key is t.
sessionsOf(t) == { s \in sessions : s.token = t }

\* The users row with the given id.
userById(i) == (CHOOSE a \in Accounts : a.user.id = i).user

\* Variant: a session is still accepted on the day it expires.
resolveToken_AcceptAtExpiry(t) ==
  IF sessionsOf(t) = {}
  THEN [kind |-> "no_such_session", user |-> NoUser]
  ELSE LET s == CHOOSE r \in sessionsOf(t) : TRUE
       IN  IF s.expires_at < now
           THEN [kind |-> "expired", user |-> NoUser]
           ELSE [kind |-> "user", user |-> userById(s.user_id)]
\* resolveToken: the outcome of looking the token up at the current time.
resolveToken(t) ==
  IF sessionsOf(t) = {}
  THEN [kind |-> "no_such_session", user |-> NoUser]
  ELSE LET s == CHOOSE r \in sessionsOf(t) : TRUE
       IN  IF s.expires_at <= now
           THEN [kind |-> "expired", user |-> NoUser]
           ELSE [kind |-> "user", user |-> userById(s.user_id)]

\* Variant: sign-out leaves the row in place.
revokeSession_KeepRow(t) == sessions
\* revokeSession: the table after deleting the row, if there is one.
revokeSession(t) == sessions \ sessionsOf(t)

\* POST /api/v1/auth/signin
SignIn(login, password) ==
  /\ UNCHANGED gateVars
  /\ UNCHANGED formVars
  /\ UNCHANGED restVars
  /\ LET cred == resolveCredentials(login, password)
     IN  IF cred.ok
         THEN \E t \in generateToken :
                /\ sessions' = createSession(cred.user, t)
                /\ issued' = issued \cup { [token |-> t, user_id |-> cred.user.id, at |-> now] }
                /\ reply' = [op |-> "signin", token |-> t, kind |-> "session",
                             user |-> cred.user, status |-> cred.status, cause |-> cred.cause]
                /\ UNCHANGED << revoked, now >>
         ELSE /\ reply' = [op |-> "signin", token |-> NoToken, kind |-> cred.detail,
                           user |-> NoUser, status |-> cred.status, cause |-> cred.cause]
              /\ UNCHANGED << sessions, issued, revoked, now >>

\* GET /api/v1/auth/me with Authorization: Bearer t
Me(t) ==
  /\ UNCHANGED gateVars
  /\ UNCHANGED formVars
  /\ UNCHANGED restVars
  /\ LET result == resolveToken(t)
     IN  /\ reply' = [op |-> "me", token |-> t, kind |-> result.kind, user |-> result.user,
                      status |-> IF result.kind = "user" THEN 200 ELSE 401,
                      cause |-> "none"]
         /\ IF result.kind = "user"
            THEN sessions' = { IF s.token = t THEN [s EXCEPT !.last_seen_at = now] ELSE s :
                               s \in sessions }
            ELSE IF result.kind = "expired"
            THEN \* the expired row may be deleted on the spot or left for later
                 sessions' \in { sessions, sessions \ sessionsOf(t) }
            ELSE sessions' = sessions
  /\ UNCHANGED << issued, revoked, now >>

\* POST /api/v1/auth/signout with Authorization: Bearer t
SignOut(t) ==
  /\ UNCHANGED gateVars
  /\ UNCHANGED formVars
  /\ UNCHANGED restVars
  /\ sessions' = revokeSession(t)
  /\ revoked' = IF sessionsOf(t) # {} THEN revoked \cup {t} ELSE revoked
  /\ reply' = [op |-> "signout", token |-> t, kind |-> "void", user |-> NoUser,
               status |-> 204,
               cause |-> IF sessionsOf(t) # {} THEN "deleted" ELSE "absent"]
  /\ UNCHANGED << issued, now >>

\* Days pass between two calls.
AdvanceClock(d) ==
  /\ UNCHANGED gateVars
  /\ UNCHANGED formVars
  /\ UNCHANGED restVars
  /\ now + d <= MaxNow
  /\ now' = now + d
  /\ UNCHANGED << sessions, issued, revoked, reply >>

SessionNext ==
  \/ \E login \in Logins, password \in Passwords : SignIn(login, password)
  \/ \E t \in PresentedTokens : Me(t)
  \/ \E t \in PresentedTokens : SignOut(t)
  \/ \E d \in ClockSteps : AdvanceClock(d)

\* The backend serving any sequence of auth calls, the frontend configured
\* with its URL.
SessionInit == Init /\ ~apiUrlMissing
SessionSpec == SessionInit /\ [][SessionNext]_vars

\* Rows and replies are well formed.
SessionTypeOK ==
  /\ now \in 0..MaxNow
  /\ \A s \in sessions :
       /\ s.token \in Tokens
       /\ s.user_id \in { a.user.id : a \in Accounts }
       /\ s.created_at <= s.last_seen_at
       /\ s.last_seen_at <= now
  /\ revoked \subseteq { i.token : i \in issued }
  /\ reply.op \in {"none", "signin", "me", "signout"}

\* ------------------------------------------------- frontend auth handlers
\* The /auth/me answer as the gate's fetch sees it.
meAnswer(r) == [status |-> r.status, body |-> "json", json |-> r.user]

\* The /auth/signin answer as the sign-in handler's fetch sees it.
signinAnswer(r) ==
  [status |-> r.status, detail |-> IF r.status = 200 THEN "" ELSE r.kind,
   access_token |-> r.token, user |-> r.user]

\* The sign-in handler's message for a backend answer that is not ok.
signinErrorDetail(status, detail) ==
  IF status = 401
  THEN <<"Invalid", " ", "login", " ", "or", " ", "password">>
  ELSE IF status = 422
  THEN IF detail # "" THEN <<detail>> ELSE <<"Validation", " ", "error">>
  ELSE <<"Server", " ", "error">>

\* new URL(`/${lang}/signin`) with searchParams.set('error', detail)
signinErrorTarget(l, detail) ==
  Concat(<< <<"/">>, <<l>>, <<"/", "signin", "?">>, URLSearchParamsToString("error", detail) >>)

\* Variant: the cookie is set without httpOnly, for the whole session of the
\* browser.
cookiesSet_ScriptReadable(name, value) ==
  [op |-> "set", name |-> name, value |-> value,
   options |-> [httpOnly |-> FALSE, secure |-> PROD, sameSite |-> "lax", path |-> "/",
                maxAge |-> 7 * 24 * 60 * 60]]
\* cookies.set(cookieName, access_token, {...}) of the sign-in handler
cookiesSet(name, value) ==
  [op |-> "set", name |-> name, value |-> value,
   options |-> [httpOnly |-> TRUE, secure |-> PROD, sameSite |-> "lax", path |-> "/",
                maxAge |-> 7 * 24 * 60 * 60]]

\* The sign-in handler from the backend's answer a on: its response and the
\* cookie changes it carries.  l is the language of the Referer.
signinHandler(l, a) ==
  IF a.status \notin 200..299
  THEN [response |-> redirect(signinErrorTarget(l, signinErrorDetail(a.status, a.detail)),
                              REDIRECT_STATUS),
        setCookies |-> <<>>]
  ELSE IF a.access_token = NoToken \/ a.user = NoUser
  THEN [response |-> redirect(signinErrorTarget(l, <<"Server", " ", "error">>),
                              REDIRECT_STATUS),
        setCookies |-> <<>>]
  ELSE [response |-> redirect(IF ~a.user.onboarding_completed
                              THEN onboardingPath(l, a.user)
                              ELSE dashboardPath(l, a.user),
                              REDIRECT_STATUS),
        setCookies |-> << cookiesSet(cookieName, a.access_token) >>]

\* ======================================================== form endpoints
\* POST /auth/signin, /auth/signup, /auth/signout (handler "auth") and the
\* earlier routes /api/v1/auth/* (handler "api") that serve the same forms.
Handlers == {"auth", "api"}

\* String.prototype.trim on the field values the model submits.
trim(s) == IF s = " " THEN "" ELSE IF s = " studio " THEN "studio" ELSE s

\* Variant: the locale is the first path segment of the Referer, slash or not.
refererLang_NoTrailingSlash(ref) ==
  LET hits == { i \in 1..(Len(ref) - 1) : ref[i] = "/" /\ ref[i + 1] \in {"en", "ru"} }
  IN IF hits = {} THEN "en" ELSE ref[(CHOOSE i \in hits : \A j \in hits : i <= j) + 1]
\* referer.match(/\/(en|ru)\//), 'en' when the header is absent ('') or has
\* no such segment.
refererLang(ref) ==
  LET hits == { i \in 1..(Len(ref) - 2) :
                  ref[i] = "/" /\ ref[i + 1] \in {"en", "ru"} /\ ref[i + 2] = "/" }
  IN IF hits = {} THEN "en" ELSE ref[(CHOOSE i \in hits : \A j \in hits : i <= j) + 1]

\* Variant: the sign-out handler ignores the form's lang field.
signoutLang_RefererOnly(r) == refererLang(r.referer)
\* The sign-out handlers: a valid lang field decides; without one /auth/signout
\* keeps the Referer's locale and /api/v1/auth/signout parses its own URL,
\* which has no locale, and stays at 'en'.
signoutLang(r) ==
  IF r.lang \in {"en", "ru"} THEN r.lang
  ELSE IF r.handler = "auth" THEN refererLang(r.referer)
  ELSE "en"

\* new URL(`/${lang}/signup`) with searchParams.set('error', detail)
signupErrorTarget(l, detail) ==
  Concat(<< <<"/">>, <<l>>, <<"/", "signup", "?">>, URLSearchParamsToString("error", detail) >>)

\* `/${lang}` of the sign-out handlers
homePath(l) == <<"/", l>>

\* Response.redirect(..., 302) in /auth/signout, 303 in /api/v1/auth/signout
signoutStatus(h) == IF h = "auth" THEN REDIRECT_STATUS ELSE 303

\* new Response(JSON.stringify({detail}), {status})
jsonResponse(status, detail) ==
  [type |-> "json", status |-> status, location |-> <<>>, xInkqAuth |-> <<>>, detail |-> detail]

\* cookies.set(cookieName, '', {..., maxAge: 0}) of /auth/signout; the empty
\* value is NoToken.
cookiesSetExpired(name) ==
  [op |-> "set", name |-> name, value |-> NoToken,
   options |-> [httpOnly |-> TRUE, secure |-> PROD, sameSite |-> "lax", path |-> "/",
                maxAge |-> 0]]

\* The cookie change of a sign-out handler.
signoutCookie(h) ==
  IF h = "auth" THEN cookiesSetExpired(cookieName) ELSE cookiesDelete(cookieName)

\* Answers of the backend's sign-up, sign-in and sign-out endpoints as the
\* handlers' fetch sees them: status, whether the body parses as JSON, the
\* body's detail when it is a string ("" otherwise), access_token and user.
BackendUsers == { u \in Users : u.id \in {1, 4} }
BackendAnswers ==
  { [status |-> 200, body |-> "json", detail |-> "", access_token |-> 1, user |-> u] :
      u \in BackendUsers }
    \cup { [status |-> 200, body |-> "json", detail |-> "", access_token |-> 1, user |-> NoUser],
           [status |-> 200, body |-> "json", detail |-> "", access_token |-> NoToken,
            user |-> CHOOSE u \in BackendUsers : u.id = 1],
           [status |-> 200, body |-> "unparsable", detail |-> "", access_token |-> NoToken,
            user |-> NoUser] }
    \cup { [status |-> s[1], body |-> s[2], detail |-> s[3], access_token |-> NoToken,
            user |-> NoUser] :
             s \in { <<401, "json", "invalid_credentials">>,
                     <<409, "json", "Email or username already exists">>,
                     <<422, "json", "msg">>,
                     <<422, "json", "">>,
                     <<500, "unparsable", "">> } }

ok(a) == a.status \in 200..299

\* ---- /auth/signup and /auth/signin
\* Variant: the role is only required to be present.
signupRejection_NoRoleCheck(r) ==
  IF trim(r.email) = "" \/ trim(r.password) = "" \/ trim(r.username) = ""
     \/ trim(r.accountType) = ""
  THEN <<"All", " ", "fields", " ", "are", " ", "required">>
  ELSE <<>>
\* The sign-up handler's rejection of the submitted fields, <<>> when they
\* pass: every field is trimmed first.
signupRejection(r) ==
  IF trim(r.email) = "" \/ trim(r.password) = "" \/ trim(r.username) = ""
     \/ trim(r.accountType) = ""
  THEN <<"All", " ", "fields", " ", "are", " ", "required">>
  ELSE IF trim(r.accountType) \notin {"artist", "studio", "model"}
  THEN <<"Invalid", " ", "account", " ", "type">>
  ELSE <<>>

\* The sign-in handler's rejection of the submitted fields.
signinRejection(r) ==
  IF trim(r.login) = "" \/ trim(r.password) = ""
  THEN <<"Login", " ", "and", " ", "password", " ", "are", " ", "required">>
  ELSE <<>>

\* The sign-up handler's message for a backend sign-up answer that is not ok.
signupErrorDetail(status, detail) ==
  IF status = 422
  THEN IF detail # "" THEN <<detail>> ELSE <<"Validation", " ", "error">>
  ELSE IF status = 409
  THEN <<"Email", " ", "or", " ", "username", " ", "already", " ", "exists">>
  ELSE <<"Server", " ", "error">>

\* Variant: the automatic sign-in only asks for a token.
signupSigninStep_TokenOnly(l, a) ==
  IF ~ok(a) \/ a.body # "json" \/ a.access_token = NoToken
  THEN [response |-> redirect(signinErrorTarget(l, <<"Server", " ", "error">>), REDIRECT_STATUS),
        setCookies |-> <<>>]
  ELSE [response |-> redirect(IF ~a.user.onboarding_completed
                              THEN onboardingPath(l, a.user)
                              ELSE dashboardPath(l, a.user),
                              REDIRECT_STATUS),
        setCookies |-> << cookiesSet(cookieName, a.access_token) >>]
\* The sign-up handler from the answer a of its automatic sign-in on.
signupSigninStep(l, a) ==
  IF ~ok(a) \/ a.body # "json" \/ a.access_token = NoToken \/ a.user = NoUser
  THEN [response |-> redirect(signinErrorTarget(l,
                                 IF a.status = 401
                                 THEN <<"Invalid", " ", "login", " ", "or", " ", "password">>
                                 ELSE IF a.status = 422
                                 THEN IF a.detail # "" THEN <<a.detail>>
                                      ELSE <<"Validation", " ", "error">>
                                 ELSE <<"Server", " ", "error">>),
                              REDIRECT_STATUS),
        setCookies |-> <<>>]
  ELSE [response |-> redirect(IF ~a.user.onboarding_completed
                              THEN onboardingPath(l, a.user)
                              ELSE dashboardPath(l, a.user),
                              REDIRECT_STATUS),
        setCookies |-> << cookiesSet(cookieName, a.access_token) >>]

\* ---- /api/v1/auth/signup and /api/v1/auth/signin
\* String.prototype.includes on messages written as chunk sequences.
includes(s, sub) ==
  \E i \in 0..(Len(s) - Len(sub)) : SubSeq(s, i + 1, i + Len(sub)) = sub

\* The backend's detail strings as text.
detailText(d) ==
  IF d = "Email or username already exists"
  THEN <<"Email", " ", "or", " ", "username", " ", "already", " ", "exists">>
  ELSE <<d>>

\* response.statusText of the statuses the backend answers without JSON.
statusText(status) ==
  IF status = 500 THEN <<"Internal", " ", "Server", " ", "Error">> ELSE <<>>

\* callBackendJsonParse: the message of the Error it throws for an answer
\* that is not ok.
errorMessage(a) ==
  IF a.body = "json"
  THEN IF a.detail # "" THEN detailText(a.detail) ELSE <<"Request", " ", "failed">>
  ELSE IF statusText(a.status) # <<>> THEN statusText(a.status)
  ELSE <<"Request", " ", "failed">>

\* The message of an exception that is not a backend answer: a rejected
\* fetch, a body that does not parse, a property read on undefined.
otherMessage == <<"fetch", " ", "failed">>

\* The catch block of /api/v1/auth/signup.
apiSignupErrorDetail(msg) ==
  IF includes(msg, <<"already", " ", "exists">>)
  THEN <<"Email", " ", "or", " ", "username", " ", "already", " ", "exists">>
  ELSE IF includes(msg, <<"Invalid", " ", "account_type">>)
  THEN <<"Invalid", " ", "account", " ", "type">>
  ELSE IF includes(msg, <<"400">>) \/ includes(msg, <<"Bad", " ", "Request">>)
  THEN msg
  ELSE IF includes(msg, <<"409">>) \/ includes(msg, <<"Conflict">>)
  THEN <<"Email", " ", "or", " ", "username", " ", "already", " ", "exists">>
  ELSE IF includes(msg, <<"422">>) \/ includes(msg, <<"Unprocessable">>)
  THEN <<"Validation", " ", "error">>
  ELSE <<"Server", " ", "error">>

\* The catch block of /api/v1/auth/signin.
apiSigninErrorDetail(msg) ==
  IF includes(msg, <<"invalid_credentials">>)
  THEN <<"Invalid", " ", "login", " ", "or", " ", "password">>
  ELSE IF includes(msg, <<"400">>) \/ includes(msg, <<"Bad", " ", "Request">>)
  THEN msg
  ELSE IF includes(msg, <<"401">>) \/ includes(msg, <<"Unauthorized">>)
  THEN <<"Invalid", " ", "login", " ", "or", " ", "password">>
  ELSE IF includes(msg, <<"403">>) \/ includes(msg, <<"Forbidden">>)
  THEN <<"Access", " ", "denied">>
  ELSE <<"Server", " ", "error">>

\* The redirect of the catch block of the earlier route for `endpoint`.
apiCatch(endpoint, l, msg) ==
  IF endpoint = "signup"
  THEN redirect(signupErrorTarget(l, apiSignupErrorDetail(msg)), REDIRECT_STATUS)
  ELSE redirect(signinErrorTarget(l, apiSigninErrorDetail(msg)), REDIRECT_STATUS)

\* The rejection of the submitted fields by /api/v1/auth/signup: a JSON
\* answer with status 400, and no trimming.
apiSignupRejection(r) ==
  IF r.email = "" \/ r.password = "" \/ r.username = "" \/ r.accountType = ""
  THEN "Missing required fields"
  ELSE IF r.accountType \notin {"artist", "studio", "model"}
  THEN "Invalid account_type"
  ELSE ""

\* String(undefined) as a cookie value: a text that is no token.
undefinedText == 0 - 1

\* The earlier routes from the answer a of the sign-in call on: the outcomes
\* the handler can produce.  cookies.set comes before the first read of
\* data.user; with a body that has no access_token its argument is undefined,
\* and the cookie jar either throws or stores the text "undefined".
apiSigninStep(endpoint, l, a) ==
  IF ~ok(a)
  THEN { [response |-> apiCatch(endpoint, l, errorMessage(a)), setCookies |-> <<>>] }
  ELSE IF a.body # "json"
  THEN { [response |-> apiCatch(endpoint, l, otherMessage), setCookies |-> <<>>] }
  ELSE LET after(cs) ==
             IF a.user = NoUser
             THEN [response |-> apiCatch(endpoint, l, otherMessage), setCookies |-> cs]
             ELSE [response |-> redirect(IF ~a.user.onboarding_completed
                                         THEN onboardingPath(l, a.user)
                                         ELSE dashboardPath(l, a.user),
                                         REDIRECT_STATUS),
                   setCookies |-> cs]
       IN IF a.access_token # NoToken
          THEN { after(<< cookiesSet(cookieName, a.access_token) >>) }
          ELSE { [response |-> apiCatch(endpoint, l, otherMessage), setCookies |-> <<>>],
                 after(<< cookiesSet(cookieName, undefinedText) >>) }

\* ---- requests
\* The page a form is on and the Referer the browser sends for it: the page's
\* URL, or nothing when the header is withheld.
FormPages(endpoint) ==
  IF endpoint = "signout"
  THEN { <<"/", l>> : l \in Langs } \cup { <<"/", l, "/", "dashboard", "/", "artist">> : l \in Langs }
  ELSE { <<"/", l, "/", endpoint>> : l \in Langs }
RefererOf(page) == { <<>>, <<"o">> \o page }

PageAndReferer(endpoint) == UNION { {p} \X RefererOf(p) : p \in FormPages(endpoint) }

SigninRequests ==
  { [endpoint |-> "signin", handler |-> h, page |-> pr[1], referer |-> pr[2], lang |-> "",
     token |-> "", login |-> lg, email |-> "", username |-> "", password |-> pw,
     accountType |-> ""] :
      h \in Handlers, pr \in PageAndReferer("signin"), lg \in {"", " ", "a"}, pw \in {"", "pa"} }

SignupRequests ==
  { [endpoint |-> "signup", handler |-> h, page |-> pr[1], referer |-> pr[2], lang |-> "",
     token |-> "", login |-> "", email |-> em, username |-> un, password |-> "pa",
     accountType |-> at] :
      h \in Handlers, pr \in PageAndReferer("signup"),
      em \in {"", "a@x"}, un \in {" ", "a"}, at \in {"", "artist", " studio ", "admin"} }

\* The sign-out form carries its page's locale in the lang field (fl = 1);
\* the field can also be missing or hold another value.
SignoutRequests ==
  { [endpoint |-> "signout", handler |-> h, page |-> pr[1], referer |-> pr[2],
     lang |-> <<pr[1][2], "", "de">>[fl],
     token |-> t, login |-> "", email |-> "", username |-> "", password |-> "",
     accountType |-> ""] :
      h \in Handlers, pr \in PageAndReferer("signout"), fl \in 1..3, t \in {"", "t1"} }

\* ---- actions
Answered(o, a) ==
  /\ answers' = Append(answers, a)
  /\ hpc' = "done"
  /\ hresponse' = o.response
  /\ hcookies' = o.setCookies
  /\ UNCHANGED << req, calls >>

Respond(r, resp, cs) ==
  /\ req' = r
  /\ hpc' = "done"
  /\ hresponse' = resp
  /\ hcookies' = cs
  /\ UNCHANGED << calls, answers >>

Fetch(r, endpoint, position) ==
  /\ req' = r
  /\ hpc' = position
  /\ calls' = Append(calls, endpoint)
  /\ UNCHANGED << answers, hresponse, hcookies >>

\* POST to the sign-in form's endpoint.
PostSignin(r) ==
  /\ hpc = "idle"
  /\ LET l == refererLang(r.referer)
     IN IF signinRejection(r) # <<>>
        THEN Respond(r, redirect(signinErrorTarget(l, signinRejection(r)), REDIRECT_STATUS),
                     <<>>)
        ELSE IF apiUrlMissing
        THEN Respond(r, redirect(signinErrorTarget(l, <<"Server", " ", "error">>),
                                 REDIRECT_STATUS), <<>>)
        ELSE Fetch(r, "signin", "awaitSignin")
  /\ UNCHANGED << gateVars, storeVars, restVars >>

\* POST to the sign-up form's endpoint.
PostSignup(r) ==
  /\ hpc = "idle"
  /\ LET l == refererLang(r.referer)
     IN IF r.handler = "auth" /\ signupRejection(r) # <<>>
        THEN Respond(r, redirect(signupErrorTarget(l, signupRejection(r)), REDIRECT_STATUS),
                     <<>>)
        ELSE IF r.handler = "api" /\ apiSignupRejection(r) # ""
        THEN Respond(r, jsonResponse(400, apiSignupRejection(r)), <<>>)
        ELSE IF apiUrlMissing
        THEN Respond(r, redirect(signupErrorTarget(l, <<"Server", " ", "error">>),
                                 REDIRECT_STATUS), <<>>)
        ELSE Fetch(r, "signup", "awaitSignup")
  /\ UNCHANGED << gateVars, storeVars, restVars >>

\* POST to the sign-out form's endpoint: the backend is called only with a
\* token, and only when its address is configured.
PostSignout(r) ==
  /\ hpc = "idle"
  /\ IF r.token # "" /\ ~apiUrlMissing
     THEN Fetch(r, "signout", "awaitSignout")
     ELSE Respond(r, redirect(homePath(signoutLang(r)), signoutStatus(r.handler)),
                  << signoutCookie(r.handler) >>)
  /\ UNCHANGED << gateVars, storeVars, restVars >>

\* The backend answers the sign-up call.
SignupAnswered(a) ==
  /\ hpc = "awaitSignup"
  /\ LET l == refererLang(req.referer)
     IN IF ~ok(a)
        THEN Answered([response |->
                         IF req.handler = "auth"
                         THEN redirect(signupErrorTarget(l, signupErrorDetail(a.status, a.detail)),
                                       REDIRECT_STATUS)
                         ELSE apiCatch("signup", l, errorMessage(a)),
                       setCookies |-> <<>>], a)
        ELSE IF req.handler = "api" /\ a.body # "json"
        THEN Answered([response |-> apiCatch("signup", l, otherMessage), setCookies |-> <<>>], a)
        ELSE /\ answers' = Append(answers, a)
             /\ calls' = Append(calls, "signin")
             /\ hpc' = "awaitSignin"
             /\ UNCHANGED << req, hresponse, hcookies >>
  /\ UNCHANGED << gateVars, storeVars, restVars >>

\* The backend answers the sign-in call, of the sign-in handler or of the
\* sign-up handler's automatic sign-in.
SigninAnswered(a) ==
  /\ hpc = "awaitSignin"
  /\ LET l == refererLang(req.referer)
     IN IF req.handler = "api"
        THEN \E o \in apiSigninStep(req.endpoint, l, a) : Answered(o, a)
        ELSE IF req.endpoint = "signup"
        THEN Answered(signupSigninStep(l, a), a)
        ELSE Answered(signinHandler(l, a), a)
  /\ UNCHANGED << gateVars, storeVars, restVars >>

\* The backend answers the sign-out call; whatever it says, the handler
\* clears the cookie and redirects.
SignoutAnswered(a) ==
  /\ hpc = "awaitSignout"
  /\ Answered([response |-> redirect(homePath(signoutLang(req)), signoutStatus(req.handler)),
               setCookies |-> << signoutCookie(req.handler) >>], a)
  /\ UNCHANGED << gateVars, storeVars, restVars >>

\* The pending fetch rejects (the backend is unreachable): the handler's
\* catch block answers.
FetchRejects ==
  /\ hpc \in {"awaitSignup", "awaitSignin", "awaitSignout"}
  /\ LET l == refererLang(req.referer)
     IN /\ hresponse' =
             IF req.endpoint = "signout"
             THEN redirect(homePath(signoutLang(req)), signoutStatus(req.handler))
             ELSE IF req.handler = "api"
             THEN apiCatch(req.endpoint, l, otherMessage)
             ELSE IF req.endpoint = "signup"
             THEN redirect(signupErrorTarget(l, <<"Server", " ", "error">>), REDIRECT_STATUS)
             ELSE redirect(signinErrorTarget(l, <<"Server", " ", "error">>), REDIRECT_STATUS)
        /\ hcookies' = IF req.endpoint = "signout" THEN << signoutCookie(req.handler) >> ELSE <<>>
  /\ hpc' = "done"
  /\ UNCHANGED << req, calls, answers >>
  /\ UNCHANGED << gateVars, storeVars, restVars >>

FormNext ==
  \/ \E r \in SigninRequests : PostSignin(r)
  \/ \E r \in SignupRequests : PostSignup(r)
  \/ \E r \in SignoutRequests : PostSignout(r)
  \/ \E a \in BackendAnswers : SignupAnswered(a)
  \/ \E a \in BackendAnswers : SigninAnswered(a)
  \/ \E a \in BackendAnswers : SignoutAnswered(a)
  \/ FetchRejects

FormInit == Init
FormSpec == FormInit /\ [][FormNext]_vars


\* ====================================== from the form's answer to the gate
\* The browser follows the redirect of a successful sign-in or sign-up: it
\* requests the Location with the cookie the answer has set, and the backend
\* resolves that cookie to the user it has just signed in.
\* The cookie header a browser sends after the cookie changes cs: the token
\* the handler stored (the model's one token reads "t1" in a header).
cookieAfter(cs) ==
  IF \E i \in 1..Len(cs) : cs[i].op = "set" /\ cs[i].name = cookieName /\ cs[i].value = 1
  THEN <<"t1">>
  ELSE <<>>

HandoffRequest ==
  /\ hpc = "done"
  /\ req.endpoint \in {"signin", "signup"}
  /\ hresponse.type = "redirect"
  /\ cookieAfter(hcookies) # <<>>
  /\ answers # <<>>
  /\ answers[Len(answers)].user # NoUser
  /\ OnRequest(hresponse.location, cookieAfter(hcookies))

HandoffResolved ==
  /\ hpc = "done"
  /\ pc = "awaitMe"
  /\ \E r \in MeResponses :
       /\ r.status = 200
       /\ r.body = "json"
       /\ r.json = answers[Len(answers)].user
       /\ MeResponds(r)

HandoffNext ==
  \/ FormNext
  \/ HandoffRequest
  \/ HandoffResolved
  \/ NextReturns

HandoffInit == Init /\ ~apiUrlMissing
HandoffSpec == HandoffInit /\ [][HandoffNext]_vars

\* ============================================== following the gate's redirects
\* The browser follows a redirect of the gate: it requests the Location's
\* path with the cookie jar as the response left it, and /me reports what it
\* reported for the request before.

\* Redirects a browser follows before it gives up, as far as the model goes.
MaxHops == 2

\* url.pathname of a Location: what precedes the query string.
pathnameOf(target) ==
  IF \E i \in 1..Len(target) : target[i] = "?"
  THEN SubSeq(target, 1, (CHOOSE i \in 1..Len(target) :
                            /\ target[i] = "?"
                            /\ \A j \in 1..(i - 1) : target[j] # "?") - 1)
  ELSE target

\* The request cookie after the cookie changes cs of the response.
jarAfter(c, cs) ==
  IF \E i \in 1..Len(cs) : cs[i].op = "delete" /\ cs[i].name = cookieName THEN <<>> ELSE c

\* The first request of a chain.
ChainStart ==
  /\ chain.hops = 0
  /\ \E p \in Pathnames, c \in RequestCookies : OnRequest(p, c)

\* The browser receives a redirect of the gate and sets out to follow it; the
\* next invocation of onRequest starts from fresh locals.
Follow ==
  /\ pc = "done"
  /\ response.type = "redirect"
  /\ chain.hops < MaxHops
  /\ chain' = [hops |-> chain.hops + 1,
               pathname |-> pathnameOf(response.location),
               cookie |-> jarAfter(cookie, setCookies),
               result |-> [user |-> user, status |-> meStatus, timedOut |-> meTimedOut]]
  /\ pc' = "idle"
  /\ pathname' = <<>>
  /\ cookie' = <<>>
  /\ lang' = ""
  /\ hadCookie' = FALSE
  /\ user' = NoUser
  /\ meStatus' = StatusNull
  /\ meTimedOut' = FALSE
  /\ clearedCookie' = FALSE
  /\ locals' = NoLocals
  /\ setCookies' = <<>>
  /\ response' = NoResponse
  /\ wrapNext' = FALSE
  /\ nextCalls' = 0
  /\ fetchCalls' = 0
  /\ authorization' = <<>>
  /\ timerArmed' = FALSE
  /\ elapsed' = 0
  /\ UNCHANGED << PROD, apiUrlMissing >>
  /\ UNCHANGED << storeVars, formVars, pairVars, raceVars >>

\* onRequest is invoked for the request that follows.
ChainRequest ==
  /\ chain.hops > 0
  /\ OnRequest(chain.pathname, chain.cookie)

\* /me answers; on a request that follows a redirect, as it did before.
ChainMeResponds ==
  /\ pc = "awaitMe"
  /\ \E r \in MeResponses :
       /\ chain.hops > 0 => resultOfResponse(r) = chain.result
       /\ MeResponds(r)
ChainFetchFails ==
  /\ pc = "awaitMe"
  /\ chain.hops > 0 => resultOfError("TypeError") = chain.result
  /\ FetchFails
ChainAbortTimeout ==
  /\ pc = "awaitMe"
  /\ chain.hops > 0 => resultOfError("AbortError") = chain.result
  /\ AbortTimeout

ChainNext ==
  \/ ChainStart
  \/ Follow
  \/ ChainRequest
  \/ Tick
  \/ ChainMeResponds
  \/ ChainFetchFails
  \/ ChainAbortTimeout
  \/ NextReturns

ChainInit == Init
ChainSpec == ChainInit /\ [][ChainNext]_vars

\* ================================================== two requests in flight
\* Two invocations of onRequest overlap in the one server process: each
\* suspends at its awaits (the fetch of /me, next()) and the other runs.

\* Paths the two requests ask for: a sign-in page, a dashboard, an onboarding
\* page, a locale root and a bypassed path.
PairPathnames ==
  { <<"/", "en", "/", "signin">>, <<"/", "en", "/", "dashboard", "/", "artist">>,
    <<"/", "ru", "/", "onboarding", "/", "studio">>, <<"/", "ru">>, <<"/", "api", "/", "x">> }

\* Cookies the two requests carry: none, or the token of one of two sessions.
PairCookies == { <<>>, <<"t1">>, <<"t2">> }

\* The user the backend holds each token's session for.
sessionUser(t) ==
  IF t = "t1" THEN CHOOSE u \in Users : u.id = 4
  ELSE IF t = "t2" THEN CHOOSE u \in Users : u.id = 1
  ELSE NoUser

\* What resolveUser can return for a token: the session's user, the
\* backend's refusal, a failed fetch, an abort.
PairResults(t) ==
  { resultOfResponse([status |-> 200, body |-> "json", json |-> sessionUser(t)]),
    resultOfResponse([status |-> 401, body |-> "json", json |-> NoUser]),
    resultOfError("TypeError"),
    resultOfError("AbortError") }

\* Variant: the context is a singleton of the module, shared by all requests.
contextOf_Singleton(i) == 1
\* The context of an invocation: the argument of onRequest and the locals
\* declared in its body, one set per call.
contextOf(i) == i

\* onRequest from line 170 (or 192 without a token) to its next await or its
\* return, on the context ctx.
ProceedIn(ctx, res, resolved) ==
  LET had == tokenOf(ctx.cookie) # ""
      clear == resolved /\ shouldClearCookie(res)
      d == Decide(ctx.pathname, extractLang(ctx.pathname), res.user, had, res.status)
  IN [ctx EXCEPT
        !.result = res,
        !.cleared = clear,
        !.setCookies = IF clear THEN Append(@, cookiesDelete(cookieName)) ELSE @,
        !.locals = IF resolved /\ res.user # NoUser
                   THEN [user |-> res.user, currentUser |-> res.user,
                         sessionToken |-> tokenOf(ctx.cookie)]
                   ELSE @,
        !.wrap = d.wrap,
        !.response = IF d.kind = "redirect"
                     THEN IF d.wrap
                          THEN withDevAuthHeader(redirect(d.target, REDIRECT_STATUS),
                                                 ctx.pathname, had, res.status, res.timedOut,
                                                 clear)
                          ELSE redirect(d.target, REDIRECT_STATUS)
                     ELSE @,
        !.pc = IF d.kind = "redirect" THEN "done" ELSE "awaitNext"]

\* onRequest lines 136-169 on a fresh context, up to the first await.
ArriveIn(p, c) ==
  LET ctx == [NoContext EXCEPT !.pathname = p, !.cookie = c]
  IN IF shouldSkipPath(p)
     THEN [ctx EXCEPT !.pc = "awaitNext"]
     ELSE IF tokenOf(c) # ""
     THEN IF apiUrlMissing
          THEN ProceedIn(ctx, resultOfError("Error"), TRUE)
          ELSE [ctx EXCEPT !.pc = "awaitMe"]
     ELSE ProceedIn(ctx, NoResult, FALSE)

\* The awaited next() has answered: the context at onRequest's return.
ReturnIn(ctx) ==
  [ctx EXCEPT
     !.response = IF ctx.wrap
                  THEN withDevAuthHeader(nextResponse, ctx.pathname, tokenOf(ctx.cookie) # "",
                                         ctx.result.status, ctx.result.timedOut, ctx.cleared)
                  ELSE nextResponse,
     !.pc = "done"]

\* Request i arrives.
PairArrive(i, p, c) ==
  /\ sent[i] = NoSent
  /\ sent' = [sent EXCEPT ![i] = [pathname |-> p, cookie |-> c, result |-> NoResult]]
  /\ inflight' = [inflight EXCEPT ![contextOf(i)] = ArriveIn(p, c)]
  /\ UNCHANGED << gateVars, storeVars, formVars, chainVars, raceVars >>

\* The fetch of request i settles with res.
PairResolved(i, res) ==
  /\ sent[i] # NoSent
  /\ inflight[contextOf(i)].pc = "awaitMe"
  /\ sent' = [sent EXCEPT ![i].result = res]
  /\ inflight' = [inflight EXCEPT ![contextOf(i)] = ProceedIn(@, res, TRUE)]
  /\ UNCHANGED << gateVars, storeVars, formVars, chainVars, raceVars >>

PairSettles(i) ==
  \E res \in PairResults(tokenOf(inflight[contextOf(i)].cookie)) : PairResolved(i, res)

\* The downstream handler of request i answers.
PairReturns(i) ==
  /\ sent[i] # NoSent
  /\ inflight[contextOf(i)].pc = "awaitNext"
  /\ inflight' = [inflight EXCEPT ![contextOf(i)] = ReturnIn(@)]
  /\ UNCHANGED sent
  /\ UNCHANGED << gateVars, storeVars, formVars, chainVars, raceVars >>

PairNext ==
  \/ \E i \in Requests, p \in PairPathnames, c \in PairCookies : PairArrive(i, p, c)
  \/ \E i \in Requests : PairSettles(i)
  \/ \E i \in Requests : PairReturns(i)

PairInit == Init
PairSpec == PairInit /\ [][PairNext]_vars

\* ============================================ backend calls that overlap
\* The backend serves its calls concurrently; each call reaches the sessions
\* table through atomic row operations (insert, select, update, delete), and
\* another call's operations may fall between two of its own.

\* Tokens the overlapping calls present: those of the first two sessions.
RacedTokens == {1, 2}

\* Variant: a resolution also extends the session's life.
touch_Sliding(s) == [s EXCEPT !.last_seen_at = now, !.expires_at = now + SESSION_TTL_DAYS]
\* The row s as a resolution leaves it.
touch(s) == [s EXCEPT !.last_seen_at = now]

\* Variant: the update writes back the row the call has read, present or not.
updateLastSeen_Upsert(row) == (sessions \ sessionsOf(row.token)) \cup { touch(row) }
\* UPDATE sessions SET last_seen_at = now WHERE id = row.token: the table
\* after it; a row that is gone is not written.
updateLastSeen(row) ==
  { IF s.token = row.token THEN touch(s) ELSE s : s \in sessions }

\* GET /auth/me, first row operation: the select and the expiry check.  known
\* records whether the token had been issued when the call began.
BeginResolve(k, t) ==
  /\ tasks[k].pc = "idle"
  /\ LET res == resolveToken(t)
         known == \E i \in issued : i.token = t
     IN IF res.kind = "user"
        THEN /\ tasks' = [tasks EXCEPT ![k] =
                            [NoTask EXCEPT !.op = "resolve", !.pc = "update", !.token = t,
                                           !.known = known,
                                           !.row = << CHOOSE s \in sessionsOf(t) : TRUE >>]]
             /\ UNCHANGED sessions
        ELSE /\ tasks' = [tasks EXCEPT ![k] =
                            [NoTask EXCEPT !.op = "resolve", !.pc = "done", !.token = t,
                                           !.known = known, !.result = res]]
             /\ IF res.kind = "expired"
                THEN sessions' \in { sessions, sessions \ sessionsOf(t) }
                ELSE UNCHANGED sessions
  /\ UNCHANGED << issued, revoked, now, reply >>
  /\ UNCHANGED << gateVars, formVars, chainVars, pairVars >>

\* GET /auth/me, second row operation: the update of last_seen_at.
ResolveUpdate(k) ==
  /\ tasks[k].pc = "update"
  /\ sessions' = updateLastSeen(tasks[k].row[1])
  /\ tasks' = [tasks EXCEPT ![k].pc = "load", ![k].wrote = now]
  /\ UNCHANGED << issued, revoked, now, reply >>
  /\ UNCHANGED << gateVars, formVars, chainVars, pairVars >>

\* GET /auth/me: the user is loaded and returned.
ResolveReturn(k) ==
  /\ tasks[k].pc = "load"
  /\ tasks' = [tasks EXCEPT ![k].pc = "done",
                            ![k].result = [kind |-> "user",
                                           user |-> userById(tasks[k].row[1].user_id)]]
  /\ UNCHANGED storeVars
  /\ UNCHANGED << gateVars, formVars, chainVars, pairVars >>

\* POST /auth/signout: one delete.
Revoke(k, t) ==
  /\ tasks[k].pc = "idle"
  /\ sessions' = revokeSession(t)
  /\ revoked' = IF sessionsOf(t) # {} THEN revoked \cup {t} ELSE revoked
  /\ tasks' = [tasks EXCEPT ![k] =
                 [NoTask EXCEPT !.op = "revoke", !.pc = "done", !.token = t,
                                !.known = (\E i \in issued : i.token = t),
                                !.result = [kind |-> "void", user |-> NoUser]]]
  /\ UNCHANGED << issued, now, reply >>
  /\ UNCHANGED << gateVars, formVars, chainVars, pairVars >>

RaceNext ==
  \/ \E login \in Logins, password \in Passwords : SignIn(login, password)
  \/ \E d \in ClockSteps : AdvanceClock(d)
  \/ \E k \in Tasks, t \in RacedTokens : BeginResolve(k, t)
  \/ \E k \in Tasks : ResolveUpdate(k)
  \/ \E k \in Tasks : ResolveReturn(k)
  \/ \E k \in Tasks, t \in RacedTokens : Revoke(k, t)

RaceInit == SessionInit /\ PROD
RaceSpec == RaceInit /\ [][RaceNext]_vars
\* =================================================================== claims
\* Vocabulary of the claims, stated on the request and the response.
ProtectedRequest ==
  /\ Len(pathname) >= 4
  /\ \E l \in {"en", "ru"}, sec \in {"dashboard", "onboarding"} :
        SubSeq(pathname, 1, 4) = <<"/", l, "/", sec>>
DashboardRequest ==
  /\ Len(pathname) >= 4
  /\ \E l \in {"en", "ru"} : SubSeq(pathname, 1, 4) = <<"/", l, "/", "dashboard">>
OnboardingRequest ==
  /\ Len(pathname) >= 4
  /\ \E l \in {"en", "ru"} : SubSeq(pathname, 1, 4) = <<"/", l, "/", "onboarding">>
\* The gate has made its decision for the request.
Decided == pc \in {"awaitNext", "done"}
\* The downstream handler was invoked.
Forwarded == nextCalls > 0
\* A cookie was presented and its resolution returned a user.
UserResolved == cookie # <<>> /\ fetchCalls = 1 /\ user \in Users
RedirectedTo(target) ==
  /\ pc = "done"
  /\ response.type = "redirect"
  /\ response.location = target
  /\ nextCalls = 0
CookieCleared ==
  \E i \in 1..Len(setCookies) :
     setCookies[i].op = "delete" /\ setCookies[i].name = "inkq_session"

\* C1: on a path under /en|ru/dashboard or /en|ru/onboarding the gate
\* forwards only when a cookie was presented and resolved to a user; in every
\* other case it answers a redirect to /{lang}/signin and never invokes the
\* downstream handler.
C1_ProtectedRequiresUser ==
  ProtectedRequest =>
    /\ Forwarded => UserResolved
    /\ (Decided /\ ~UserResolved) =>
         /\ pc = "done"
         /\ response.type = "redirect"
         /\ Len(response.location) >= 4
         /\ SubSeq(response.location, 1, 4) = <<"/", pathname[2], "/", "signin">>
         /\ nextCalls = 0

\* C1 witness: a protected request whose resolution answered 500 ends in
\* the redirect.
C1_Witness ==
  /\ ProtectedRequest
  /\ pc = "done"
  /\ cookie = <<"t1">>
  /\ meStatus = 500
  /\ response.type = "redirect"

\* The path segment right after /{lang}/dashboard/ when it is a role name,
\* "" otherwise.
RoleSegment ==
  IF /\ DashboardRequest
     /\ Len(pathname) >= 6
     /\ pathname[5] = "/"
     /\ pathname[6] \in {"artist", "studio", "model"}
     /\ (Len(pathname) = 6 \/ pathname[7] = "/")
  THEN pathname[6]
  ELSE ""

\* C2: a user with onboarding completed and role A who requests a dashboard
\* path whose role segment is B # A is redirected to /{lang}/dashboard/A; when
\* the role segment is A, or the path has no role segment, the request is
\* forwarded with the user attached to the request context.
C2_RolePathEnforcement ==
  (DashboardRequest /\ Decided /\ UserResolved /\ user.onboarding_completed) =>
    IF RoleSegment # "" /\ RoleSegment # user.account_type
    THEN RedirectedTo(<<"/", pathname[2], "/", "dashboard", "/", user.account_type>>)
    ELSE /\ nextCalls = 1
         /\ locals.user = user
         /\ pc = "done" => response.type = "next"

\* The sign-in targets as the browser receives them.
SessionExpiredTarget(l) ==
  <<"/", l, "/", "signin", "?", "error", "=", "Session", "+", "expired">>
AuthRequiredTarget(l) ==
  <<"/", l, "/", "signin", "?", "reason", "=", "auth_required">>
NoCookiePresented == cookie \in { <<>>, <<"">> }

\* C3: a protected request whose token /me rejects with 401 (expired or
\* unknown session) is answered by clearing the session cookie and
\* redirecting to /{lang}/signin?error=Session+expired, an indicator that a
\* request without a token never receives.
C3_InvalidatedSessionRedirect ==
  (ProtectedRequest /\ Decided) =>
    /\ (cookie = <<"t1">> /\ fetchCalls = 1 /\ meStatus = 401) =>
         /\ RedirectedTo(SessionExpiredTarget(pathname[2]))
         /\ CookieCleared
    /\ NoCookiePresented =>
         /\ pc = "done"
         /\ response.location # SessionExpiredTarget(pathname[2])

C3_Witness ==
  /\ ProtectedRequest
  /\ pc = "done"
  /\ meStatus = 401
  /\ clearedCookie
  /\ response.location = SessionExpiredTarget(pathname[2])

\* C4: a protected request without a session cookie is redirected to
\* /{lang}/signin?reason=auth_required; no resolution call is made and no
\* cookie is cleared.
C4_NoCookieRedirect ==
  (ProtectedRequest /\ Decided /\ NoCookiePresented) =>
    /\ RedirectedTo(AuthRequiredTarget(pathname[2]))
    /\ setCookies = <<>>
    /\ fetchCalls = 0

C4_Witness ==
  /\ pathname = <<"/", "ru", "/", "dashboard", "/", "model">>
  /\ cookie = <<>>
  /\ pc = "done"
  /\ response.location = AuthRequiredTarget("ru")

C6_ResolutionTerminates == (pc = "awaitMe") ~> (pc = "done")

\* C6 witness: the timer ended the resolution and the gate responded.
C6_Witness ==
  /\ pc = "done"
  /\ fetchCalls = 1
  /\ meTimedOut
  /\ ~timerArmed
  /\ response.type # "none"

\* C7: a user with onboarding not completed who requests a dashboard path is
\* redirected to /{lang}/onboarding/{account_type} of the user's own role,
\* whatever the path's role segment.
C7_IncompleteToOnboarding ==
  (DashboardRequest /\ Decided /\ UserResolved /\ ~user.onboarding_completed) =>
    RedirectedTo(<<"/", pathname[2], "/", "onboarding", "/", user.account_type>>)

\* C7 witness: the path carries another role than the user's.
C7_Witness ==
  /\ pathname = <<"/", "en", "/", "dashboard", "/", "studio">>
  /\ pc = "done"
  /\ user.account_type = "artist"
  /\ ~user.onboarding_completed
  /\ response.type = "redirect"

SignInOrUpRequest ==
  \E l \in {"en", "ru"}, page \in {"signin", "signup"} : pathname = <<"/", l, "/", page>>
HomeRequest == pathname \in { <<"/">>, <<"/", "en">>, <<"/", "ru">> }

\* C8: a user with a resolved session who requests sign-in or sign-up is
\* redirected to the onboarding path of the user's role when onboarding is not
\* completed and to the dashboard path of the role when it is; on the root
\* and the language home pages the request is forwarded.
C8_AuthenticatedOnPublic ==
  (Decided /\ UserResolved) =>
    /\ SignInOrUpRequest =>
         RedirectedTo(<<"/", pathname[2], "/",
                        IF user.onboarding_completed THEN "dashboard" ELSE "onboarding",
                        "/", user.account_type>>)
    /\ HomeRequest =>
         /\ nextCalls = 1
         /\ pc = "done" => response.type = "next"

C8_Witness ==
  /\ pathname = <<"/", "ru", "/", "signup">>
  /\ pc = "done"
  /\ user.onboarding_completed
  /\ user.account_type = "model"
  /\ response.location = <<"/", "ru", "/", "dashboard", "/", "model">>

\* C9: a user with onboarding completed who requests an onboarding path is
\* forwarded, not redirected.
C9_CompletedRevisitsOnboarding ==
  (OnboardingRequest /\ Decided /\ UserResolved /\ user.onboarding_completed) =>
    /\ nextCalls = 1
    /\ response.type # "redirect"
    /\ pc = "done" => response.type = "next"

C9_Witness ==
  /\ pathname = <<"/", "en", "/", "onboarding", "/", "artist">>
  /\ pc = "done"
  /\ user.onboarding_completed
  /\ response.type = "next"

PublicRequest == SignInOrUpRequest \/ HomeRequest

\* C10: a request to a public path without a resolved user is forwarded,
\* with no token and with a token that failed to resolve alike; no redirect
\* is produced.
C10_PublicWithoutUser ==
  (PublicRequest /\ Decided /\ ~UserResolved) =>
    /\ nextCalls = 1
    /\ response.type # "redirect"
    /\ pc = "done" => (response.type = "next" /\ response.location = <<>>)

\* C10 witness: the token was rejected with 401 on the sign-in page.
C10_Witness ==
  /\ pathname = <<"/", "en", "/", "signin">>
  /\ pc = "done"
  /\ cookie = <<"t1">>
  /\ meStatus = 401
  /\ response.type = "next"

\* C11: every redirect of the gate targets a path under the locale segment
\* of the request path: a request under /ru is never redirected under /en and
\* vice versa.
C11_LocalePreserved ==
  (pc = "done" /\ response.type = "redirect") =>
    /\ Len(pathname) >= 2
    /\ pathname[1] = "/"
    /\ pathname[2] \in {"en", "ru"}
    /\ Len(response.location) >= 3
    /\ SubSeq(response.location, 1, 3) = <<"/", pathname[2], "/">>

\* C11 witness: a Russian dashboard request of an incomplete user.
C11_Witness ==
  /\ pc = "done"
  /\ Len(pathname) >= 4
  /\ SubSeq(pathname, 1, 4) = <<"/", "ru", "/", "dashboard">>
  /\ user \in Users
  /\ response.type = "redirect"
  /\ SubSeq(response.location, 1, 4) = <<"/", "ru", "/", "onboarding">>

\* The path starts with one of the infrastructure prefixes.
BypassedRequest ==
  \/ /\ Len(pathname) >= 3
     /\ pathname[1] = "/"
     /\ pathname[2] \in {"api", "assets", "_astro", "node_modules"}
     /\ pathname[3] = "/"
  \/ /\ Len(pathname) >= 2
     /\ pathname[1] = "/"
     /\ pathname[2] = "favicon."

\* C12: a request under /api/, /assets/, /favicon., /_astro/ or
\* /node_modules/ is forwarded at once in every cookie state: no resolution
\* call, no cookie change, nothing attached to the request context, no
\* redirect.
C12_BypassedForwarded ==
  (BypassedRequest /\ pc # "idle") =>
    /\ nextCalls = 1
    /\ fetchCalls = 0
    /\ setCookies = <<>>
    /\ locals = NoLocals
    /\ response.type # "redirect"
    /\ pc = "done" => response = nextResponse

\* C12 witness: an API request that carries a session token.
C12_Witness ==
  /\ pathname = <<"/", "api", "/", "x">>
  /\ cookie = <<"t1">>
  /\ pc = "done"
  /\ response.type = "next"

\* The gate's path classes, by its own predicates.
ClassBypassed == shouldSkipPath(pathname)
ClassPublic == isPublicPath(pathname)
ClassProtectedOnboarding ==
  isProtectedPath(pathname) /\ startsWith(pathname, <<"/", extractLang(pathname), "/", "onboarding">>)
ClassProtectedDashboard ==
  isProtectedPath(pathname) /\ startsWith(pathname, <<"/", extractLang(pathname), "/", "dashboard">>)
ClassCount ==
  Cardinality({ c \in {"bypassed", "public", "onboarding", "dashboard"} :
                  \/ c = "bypassed" /\ ClassBypassed
                  \/ c = "public" /\ ClassPublic
                  \/ c = "onboarding" /\ ClassProtectedOnboarding
                  \/ c = "dashboard" /\ ClassProtectedDashboard })

\* C13 as stated: every request path is in exactly one of the classes
\* Public, ProtectedOnboarding, ProtectedDashboard, Bypassed.
C13_ExactlyOneClass == (pc # "idle") => ClassCount = 1

\* C13 amended: the four classes are pairwise disjoint but do not cover every
\* path; a path in none of them is handled by the default branch, which
\* resolves a presented token and then forwards.
C13_AtMostOneClass ==
  (pc # "idle") =>
    /\ ClassCount <= 1
    /\ (ClassCount = 0 /\ Decided) =>
         /\ nextCalls = 1
         /\ response.type # "redirect"
         /\ (cookie = <<"t1">> /\ ~apiUrlMissing) => fetchCalls = 1

\* C13 witness: /en/x is in none of the classes and is forwarded.
C13_Witness ==
  /\ pathname = <<"/", "en", "/", "x">>
  /\ ClassCount = 0
  /\ pc = "done"
  /\ response.type = "next"

\* ----------------------------------------------------- session service claims
\* C14: a session is valid iff its row exists and now < expires_at: a
\* resolution returns a user only then, fails with no_such_session when no
\* row exists, and fails with expired whenever expires_at <= now although the
\* row is present.
C14_ValidIffPresentAndUnexpired ==
  [][\A t \in PresentedTokens :
       (reply'.op = "me" /\ reply'.token = t /\ Me(t)) =>
         LET rows == { s \in sessions : s.token = t }
         IN  /\ (reply'.kind = "user") <=> (\E s \in rows : now < s.expires_at)
             /\ (reply'.kind = "no_such_session") <=> (rows = {})
             /\ (reply'.kind = "expired") <=> (\E s \in rows : s.expires_at <= now)
             /\ (reply'.kind = "user") => (\E s \in rows : reply'.user.id = s.user_id)]_vars

\* C14 witness: a resolution failed as expired on the very day of expiry and
\* the row is still in the table.
C14_Witness ==
  /\ reply.op = "me"
  /\ reply.kind = "expired"
  /\ \E s \in sessions : s.token = reply.token /\ s.expires_at = now

\* C15: after a sign-in of user u returned token t, the gate's resolution of
\* t yields exactly u for as long as t is neither revoked nor expired,
\* whatever other sign-ins and sign-outs happen in between.
C15_SignInResolveRoundTrip ==
  [][\A i \in issued :
       (/\ reply'.op = "me"
        /\ reply'.token = i.token
        /\ Me(i.token)
        /\ i.token \notin revoked
        /\ now < i.at + SESSION_TTL_DAYS) =>
         resultOfResponse(meAnswer(reply')).user = userById(i.user_id)]_vars

\* C15 witness: a token resolved to its user days after the sign-in, while
\* another user holds a session and a third token has been revoked.
C15_Witness ==
  /\ reply.op = "me"
  /\ reply.kind = "user"
  /\ \E i \in issued : i.token = reply.token /\ i.at < now /\ i.user_id = reply.user.id
  /\ \E s \in sessions : s.user_id # reply.user.id

C19_ConcurrentSessions ==
  [][/\ \A login \in Logins, password \in Passwords :
          (reply'.op = "signin" /\ SignIn(login, password)) => sessions \subseteq sessions'
     /\ \A t \in PresentedTokens :
          (reply'.token = t /\ SignOut(t)) =>
            \A s \in sessions : s.token # t => s \in sessions']_vars

\* C19 witness: one of a user's two sessions was signed out and the other is
\* still valid.
C19_Witness ==
  /\ reply.op = "signout"
  /\ reply.cause = "deleted"
  /\ \E i \in issued, s \in sessions :
       i.token = reply.token /\ s.user_id = i.user_id /\ now < s.expires_at

\* C20: a sign-in with an existing login and a wrong password and a sign-in
\* with an unknown login get the identical answer: status 401 with
\* invalid_credentials from the backend, and from the sign-in handler the same
\* redirect to the sign-in page with the same message and no cookie.
C20_NoEnumeration ==
  (reply.op = "signin" /\ reply.cause \in {"unknown_login", "wrong_password"}) =>
    /\ reply.status = 401
    /\ reply.kind = "invalid_credentials"
    /\ reply.token = NoToken
    /\ reply.user = NoUser
    /\ \A l \in Langs :
         signinHandler(l, signinAnswer(reply)) =
           [response |->
              redirect(<<"/", l, "/", "signin", "?", "error", "=",
                         "Invalid", "+", "login", "+", "or", "+", "password">>, 302),
            setCookies |-> <<>>]

\* C20 witness: a sign-in with an unknown login failed while that of a known
\* login would have found the account.
C20_Witness ==
  /\ reply.op = "signin"
  /\ reply.cause = "unknown_login"
  /\ sessions # {}

\* ------------------------------------------------- resolution and cookies
\* The result resolveUser handed to the gate.
ResolvedAs(u, s, t) == user = u /\ meStatus = s /\ meTimedOut = t

\* C27: session resolution never throws: every outcome of the backend call
\* ends in a result the gate decides on.  A 2xx answer with a JSON body
\* yields the user with that status; a non-2xx answer yields no user with
\* that status; a rejected fetch, a missing backend address and an
\* unparsable body yield no user with status null and timedOut false; an
\* abort yields no user with status null and timedOut true.
C27_ResolveUserTotal ==
  [][ /\ \A r \in MeResponses :
           (pc = "awaitMe" /\ MeResponds(r)) =>
             /\ Decided'
             /\ IF r.status \in 200..299 /\ r.body = "json"
                THEN ResolvedAs(r.json, r.status, FALSE)'
                ELSE IF r.status \in 200..299
                THEN ResolvedAs(NoUser, StatusNull, FALSE)'
                ELSE ResolvedAs(NoUser, r.status, FALSE)'
      /\ (pc = "awaitMe" /\ FetchFails) =>
           Decided' /\ ResolvedAs(NoUser, StatusNull, FALSE)'
      /\ (pc = "awaitMe" /\ AbortTimeout) =>
           Decided' /\ ResolvedAs(NoUser, StatusNull, TRUE)'
      /\ (pc = "idle" /\ apiUrlMissing /\ pc' # "idle" /\ hadCookie') =>
           Decided' /\ ResolvedAs(NoUser, StatusNull, FALSE)'
    ]_vars

\* C27 witness: the fetch rejected without an abort and the gate went on to
\* redirect the protected request.
C27_Witness ==
  /\ ProtectedRequest
  /\ pc = "done"
  /\ fetchCalls = 1
  /\ ResolvedAs(NoUser, StatusNull, FALSE)
  /\ response.type = "redirect"

\* C28: on every request that is not bypassed the gate deletes the session
\* cookie exactly when a token was presented, no user was resolved and
\* /auth/me answered 401 or 403, whatever the class of the path; after any
\* other outcome it changes no cookie, and a redirect to
\* /{lang}/signin?error=Session+expired always comes with the deletion.
C28_CookieDeletedIff ==
  (Decided /\ ~BypassedRequest) =>
    /\ CookieCleared <=>
         (tokenOf(cookie) # "" /\ user = NoUser /\ meStatus \in {401, 403})
    /\ ~CookieCleared => setCookies = <<>>
    /\ (pc = "done" /\ response.type = "redirect"
          /\ \E l \in Langs : response.location = SessionExpiredTarget(l))
         => CookieCleared

\* C28 witness: a public page requested with a token that /auth/me rejects
\* with 403 is forwarded with the cookie deleted.
C28_Witness ==
  /\ pathname = <<"/", "ru">>
  /\ Decided
  /\ nextCalls = 1
  /\ meStatus = 403
  /\ CookieCleared

\* ------------------------------------------------------- form endpoints
\* Vocabulary of the form claims.
HandlerDone(endpoint) == hpc = "done" /\ req.endpoint = endpoint
\* The answer of the backend's sign-in call, when one was received.
SigninAnswer == answers[Len(answers)]
SigninCallAnswered ==
  /\ Len(calls) = Len(answers)
  /\ Len(calls) >= 1
  /\ calls[Len(calls)] = "signin"
\* The backend accepted the credentials and answered with a token and a user.
SigninSucceeded ==
  /\ SigninCallAnswered
  /\ SigninAnswer.status \in 200..299
  /\ SigninAnswer.body = "json"
  /\ SigninAnswer.access_token # NoToken
  /\ SigninAnswer.user # NoUser
RolePathOf(u) ==
  { <<"/", l, "/", IF u.onboarding_completed THEN "dashboard" ELSE "onboarding", "/",
      u.account_type>> : l \in Langs }
SessionCookieSetTo(t) ==
  /\ Len(hcookies) = 1
  /\ hcookies[1].op = "set"
  /\ hcookies[1].name = "inkq_session"
  /\ hcookies[1].value = t
SetsSessionCookie ==
  \E i \in 1..Len(hcookies) : hcookies[i].op = "set" /\ hcookies[i].value # NoToken
SigninRedirectsByRole(status) ==
  (HandlerDone("signin") /\ SigninSucceeded) =>
    /\ SessionCookieSetTo(SigninAnswer.access_token)
    /\ hresponse.type = "redirect"
    /\ hresponse.status = status
    /\ hresponse.location \in RolePathOf(SigninAnswer.user)

\* C21 as stated: a successful sign-in sets the session cookie to the issued
\* token and answers a 303 redirect to /{lang}/onboarding/{role} or
\* /{lang}/dashboard/{role}.
C21_SigninSuccess303 == SigninRedirectsByRole(303)

\* C21: a successful sign-in sets the session cookie to the issued token and
\* answers a 302 redirect to /{lang}/onboarding/{role} when the user's
\* onboarding is not completed and to /{lang}/dashboard/{role} when it is.
C21_SigninSuccess == SigninRedirectsByRole(302)

\* C21 witness: an artist with onboarding open signs in from the Russian
\* sign-in page.
C21_Witness ==
  /\ HandlerDone("signin")
  /\ req.handler = "auth"
  /\ SigninSucceeded
  /\ SessionCookieSetTo(1)
  /\ hresponse.location = <<"/", "ru", "/", "onboarding", "/", "artist">>

\* The response is a redirect to the sign-in or sign-up page with an error
\* indicator in the query string.
ErrorRedirect ==
  /\ hresponse.type = "redirect"
  /\ Len(hresponse.location) >= 8
  /\ hresponse.location[1] = "/"
  /\ hresponse.location[2] \in Langs
  /\ hresponse.location[3] = "/"
  /\ hresponse.location[4] \in {"signin", "signup"}
  /\ SubSeq(hresponse.location, 5, 7) = <<"?", "error", "=">>
RedirectStatus == hresponse.type = "redirect" /\ hresponse.status \in 300..399

\* C22: every POST to the sign-in, sign-up and sign-out endpoints is answered
\* with a redirect status, never with a JSON error body; a sign-in or sign-up
\* that does not succeed (rejected fields, refused credentials, duplicate
\* account, backend error, exception) is answered with a redirect to the form
\* carrying an error indicator, and sets no session cookie.
C22_AlwaysRedirect ==
  hpc = "done" =>
    /\ RedirectStatus
    /\ (req.endpoint \in {"signin", "signup"} /\ ~SigninSucceeded) =>
         ErrorRedirect /\ ~SetsSessionCookie

\* The response removes the session cookie from the browser: a deletion, or
\* an empty value that expires at once.
ClearsSessionCookie ==
  /\ Len(hcookies) = 1
  /\ hcookies[1].name = "inkq_session"
  /\ \/ hcookies[1].op = "delete"
     \/ /\ hcookies[1].op = "set"
        /\ hcookies[1].value = NoToken
        /\ hcookies[1].options.maxAge = 0

Blank == {"", " "}
\* The sign-up form lacks a field or names a role that does not exist.
InvalidSignupFields ==
  \/ req.email \in Blank
  \/ req.username \in Blank
  \/ req.password \in Blank
  \/ req.accountType \in Blank
  \/ req.accountType = "admin"

C25_CookieContract ==
  \A i \in 1..Len(hcookies) :
    (hcookies[i].op = "set" /\ hcookies[i].value # NoToken) =>
      /\ req.endpoint \in {"signin", "signup"}
      /\ hcookies[i].name = "inkq_session"
      /\ hcookies[i].options.httpOnly
      /\ hcookies[i].options.sameSite = "lax"
      /\ hcookies[i].options.path = "/"
      /\ hcookies[i].options.maxAge = 604800
      /\ hcookies[i].options.secure = PROD
      /\ DOMAIN hresponse = {"type", "status", "location", "xInkqAuth"}
      /\ hresponse.xInkqAuth = <<>>
      /\ \/ ErrorRedirect
         \/ /\ SigninAnswer.user # NoUser
            /\ hresponse.location \in RolePathOf(SigninAnswer.user)

\* C25 witness: in production the sign-up handler's automatic sign-in sets
\* the cookie with Secure.
C25_Witness ==
  /\ HandlerDone("signup")
  /\ PROD
  /\ SigninSucceeded
  /\ SessionCookieSetTo(1)
  /\ hcookies[1].options.secure
  /\ hcookies[1].options.maxAge = 604800

\* A cookie change that sets the session cookie to the empty value with
\* Max-Age=0 and the path and flags of the set-cookie actions.
MirrorsSetFlags(c) ==
  /\ c.op = "set"
  /\ c.name = "inkq_session"
  /\ c.value = NoToken
  /\ c.options = [httpOnly |-> TRUE, secure |-> PROD, sameSite |-> "lax", path |-> "/",
                  maxAge |-> 0]
\* A cookie change that removes the session cookie.
IsClearing(c) == c.op = "delete" \/ c.value = NoToken

\* C26: every action that clears the session cookie, the gate's on an
\* invalidated session and each sign-out handler's, sets it with the empty
\* value and Max-Age=0 under Path=/, HttpOnly, SameSite=Lax and Secure exactly
\* in production.
C26_ClearMirrorsSet ==
  /\ \A i \in 1..Len(setCookies) : IsClearing(setCookies[i]) => MirrorsSetFlags(setCookies[i])
  /\ \A i \in 1..Len(hcookies) : IsClearing(hcookies[i]) => MirrorsSetFlags(hcookies[i])

\* The backend answered the sign-up call with success: the account exists.
AccountCreated ==
  /\ Len(answers) >= 1
  /\ calls[1] = "signup"
  /\ answers[1].status \in 200..299
\* The automatic sign-in was answered, and not with a token and a user.
AutoSigninRefused == AccountCreated /\ Len(answers) = 2 /\ ~SigninSucceeded
\* The automatic sign-in call threw before any answer.
AutoSigninThrew == AccountCreated /\ Len(calls) = 2 /\ Len(answers) = 1 /\ hpc = "done"
ToSigninWithError == ErrorRedirect /\ hresponse.location[4] = "signin"
ToSignupWithError == ErrorRedirect /\ hresponse.location[4] = "signup"
\* The order of the sign-up handler's steps and the condition of its cookie.
SignupStepsOrdered ==
  /\ calls \in { <<>>, <<"signup">>, <<"signup", "signin">> }
  /\ Len(calls) = 2 => AccountCreated
  /\ hpc = "done" =>
       (SetsSessionCookie <=> (AccountCreated /\ Len(answers) = 2 /\ SigninSucceeded))

\* C29 as stated: in POST /auth/signup the sign-up call precedes the sign-in
\* call, the sign-in call is made only after a successful sign-up, the cookie
\* is set iff both calls succeeded with a token and a user, and whenever the
\* automatic sign-in fails after a successful sign-up no cookie is set and the
\* response redirects to the sign-in page with an error.
C29_AutoSigninFailureToSignin ==
  (req.endpoint = "signup" /\ req.handler = "auth") =>
    /\ SignupStepsOrdered
    /\ (AutoSigninRefused \/ AutoSigninThrew) => (hcookies = <<>> /\ ToSigninWithError)

\* C29: in POST /auth/signup the sign-up call precedes the sign-in call, the
\* sign-in call is made only after a successful sign-up, and the cookie is
\* set iff both calls succeeded and the sign-in answer carried a token and a
\* user.  When the account was created and the sign-in call is answered
\* without success, no cookie is set and the response redirects to the
\* sign-in page with an error; when the sign-in call throws, no cookie is set
\* and the response redirects to the sign-up page with the generic error.
C29_SignupOrdered ==
  (req.endpoint = "signup" /\ req.handler = "auth") =>
    /\ SignupStepsOrdered
    /\ AutoSigninRefused => (hcookies = <<>> /\ ToSigninWithError)
    /\ AutoSigninThrew =>
         /\ hcookies = <<>>
         /\ hresponse.location =
              <<"/", hresponse.location[2], "/", "signup", "?", "error", "=", "Server", "+", "error">>

\* C29 witness: the account was created and the automatic sign-in was
\* refused with 401.
C29_Witness ==
  /\ HandlerDone("signup")
  /\ req.handler = "auth"
  /\ AutoSigninRefused
  /\ answers[2].status = 401
  /\ hcookies = <<>>
  /\ hresponse.location =
       <<"/", "ru", "/", "signin", "?", "error", "=",
         "Invalid", "+", "login", "+", "or", "+", "password">>

\* The locale of the page the form was submitted from.
PageLocale == req.page[2]
\* The locale the response redirects under.
RedirectLocale == hresponse.location[2]
FormRedirected == hpc = "done" /\ hresponse.type = "redirect"

\* C30 as stated: every redirect of the sign-in, sign-up and sign-out
\* handlers carries the locale of the page the form was submitted from; for
\* sign-out a valid lang field decides.
C30_PageLocalePreserved ==
  FormRedirected =>
    /\ RedirectLocale = PageLocale
    /\ (req.endpoint = "signout" /\ req.lang \in Langs) => RedirectLocale = req.lang

\* C30: every redirect of the sign-in, sign-up and sign-out handlers carries
\* the locale the request names: for sign-out a valid lang field decides;
\* otherwise the locale is the page's when the Referer header was sent and
\* the page's URL continues with a slash after the locale, and en when the
\* header is absent or the URL ends with the locale (/ru); the earlier
\* sign-out route does not read the Referer and answers under en without a
\* valid lang field.
C30_LocaleFromRequest ==
  FormRedirected =>
    RedirectLocale =
      IF req.endpoint = "signout" /\ req.lang \in Langs THEN req.lang
      ELSE IF req.endpoint = "signout" /\ req.handler = "api" THEN "en"
      ELSE IF req.referer # <<>> /\ Len(req.page) >= 3 THEN PageLocale
      ELSE "en"

\* C30 witness: a sign-in refused from the Russian sign-in page is sent back
\* under /ru.
C30_Witness ==
  /\ HandlerDone("signin")
  /\ req.referer = <<"o", "/", "ru", "/", "signin">>
  /\ Len(answers) = 1
  /\ answers[1].status = 401
  /\ ErrorRedirect
  /\ RedirectLocale = "ru"

\* ------------------------------------------------- gate, further claims
\* The role segment of an onboarding path, "" when it has none.
OnboardingRoleSegment ==
  IF OnboardingRequest /\ Len(pathname) >= 6 /\ pathname[5] = "/" THEN pathname[6] ELSE ""

\* C36: onboarding paths are gated on authentication only: an authenticated
\* user, with onboarding completed or not, who requests a path under
\* /{lang}/onboarding is forwarded with the user attached and never
\* redirected, also when the role segment of the path is another role.
C36_OnboardingAuthOnly ==
  (OnboardingRequest /\ Decided /\ UserResolved) =>
    /\ nextCalls = 1
    /\ response.type # "redirect"
    /\ locals.user = user
    /\ setCookies = <<>>

\* C36 witness: a studio user with onboarding open is forwarded on the
\* artists' onboarding path.
C36_Witness ==
  /\ OnboardingRequest
  /\ OnboardingRoleSegment = "artist"
  /\ UserResolved
  /\ user.account_type = "studio"
  /\ ~user.onboarding_completed
  /\ pc = "done"
  /\ response.type = "next"

\* What the gate attached to the request context.
Attached(u, t) == locals = [user |-> u, currentUser |-> u, sessionToken |-> t]
NothingAttached ==
  locals = [user |-> NoUser, currentUser |-> NoUser, sessionToken |-> ""]

\* C37: the gate attaches identity to the request context exactly when the
\* resolution of the presented token succeeded: after a 2xx answer with a
\* user the context holds that user (as user and currentUser) and the
\* presented cookie value; after any other answer, a rejected fetch, an
\* abort, without a cookie, with a missing backend address and on a bypassed
\* path nothing is attached, and nothing changes the context afterwards.
C37_IdentityIffResolved ==
  [][ /\ \A r \in MeResponses :
           (pc = "awaitMe" /\ MeResponds(r)) =>
             IF r.status \in 200..299 /\ r.body = "json"
             THEN Attached(r.json, cookie[1])'
             ELSE NothingAttached'
      /\ (pc = "awaitMe" /\ (FetchFails \/ AbortTimeout)) => NothingAttached'
      /\ (pc = "idle" /\ pc' \in {"awaitNext", "done"}) => NothingAttached'
      /\ pc = "awaitNext" => locals' = locals
    ]_vars

\* C37 witness: a resolved model user is attached with the token while the
\* downstream handler runs.
C37_Witness ==
  /\ pc = "awaitNext"
  /\ cookie = <<"t1">>
  /\ user.account_type = "model"
  /\ Attached(user, "t1")

\* C38: every request ends in exactly one outcome: the downstream handler is
\* invoked once and its response returned, or a redirect is returned and the
\* handler is never invoked.  The session is resolved at most once per
\* request: exactly once when the path is not bypassed and the cookie has a
\* non-empty value (one fetch, none when the backend address is missing and
\* the resolution fails before it), never otherwise.
C38_ExactlyOneOutcome ==
  /\ nextCalls <= 1
  /\ fetchCalls <= 1
  /\ pc = "done" =>
       \/ response.type = "next" /\ nextCalls = 1
       \/ response.type = "redirect" /\ nextCalls = 0
  /\ pc = "awaitNext" => nextCalls = 1
  /\ pc = "awaitMe" => nextCalls = 0 /\ fetchCalls = 1
  /\ pc # "idle" =>
       /\ hadCookie <=> (~BypassedRequest /\ ~NoCookiePresented)
       /\ fetchCalls = (IF hadCookie /\ ~apiUrlMissing THEN 1 ELSE 0)
       /\ (~hadCookie /\ Decided) => (user = NoUser /\ meStatus = StatusNull)

\* C38 witness: a request with an empty cookie value is forwarded without
\* any resolution.
C38_Witness ==
  /\ pc = "done"
  /\ cookie = <<"">>
  /\ ~BypassedRequest
  /\ fetchCalls = 0
  /\ nextCalls = 1
  /\ response.type = "next"

\* ---- from the form's answer to the gate
\* The gate has decided the request that follows a sign-in or sign-up.
HandoffDecided == hpc = "done" /\ pc \in {"awaitNext", "done"}

\* C35: the redirect target of a successful sign-in or sign-up is a protected
\* path, and the gate, given the cookie that answer has set and the same
\* user, forwards the request for it without a redirect of its own.
C35_HandoffForwarded ==
  /\ (hpc = "done" /\ req.endpoint \in {"signin", "signup"} /\ SigninSucceeded
        /\ hresponse.type = "redirect" /\ SetsSessionCookie)
       => isProtectedPath(hresponse.location)
  /\ HandoffDecided
       => /\ pathname = hresponse.location
          /\ ProtectedRequest
          /\ nextCalls = 1
          /\ response.type # "redirect"
          /\ locals.user = SigninAnswer.user
          /\ setCookies = <<>>
C35_Witness ==
  /\ HandlerDone("signup")
  /\ pc = "done"
  /\ response.type = "next"
  /\ DashboardRequest
  /\ user.account_type = "studio"

\* ---- following the gate's redirects
\* C34: the request that follows a redirect of the gate, made with the cookie
\* jar the response left and resolved as the request before it, is forwarded;
\* no chain of gate redirects is longer than one.
C34_NoRedirectLoop ==
  /\ chain.hops <= 1
  /\ (chain.hops >= 1 /\ pc \in {"awaitNext", "done"})
       => /\ pathname = chain.pathname
          /\ nextCalls = 1
          /\ response.type # "redirect"
C34_Witness ==
  /\ chain.hops = 1
  /\ pc = "done"
  /\ response.type = "next"
  /\ chain.result.user # NoUser
  /\ chain.result.user.onboarding_completed
  /\ DashboardRequest
  /\ user = chain.result.user

\* ---- two requests in flight
\* What onRequest leaves when it runs from arrival to return with nothing
\* else in between, for the request and the resolution result in s.
Alone(s) ==
  LET arrived == ArriveIn(s.pathname, s.cookie)
      decided == IF arrived.pc = "awaitMe" THEN ProceedIn(arrived, s.result, TRUE)
                 ELSE arrived
  IN IF decided.pc = "awaitNext" THEN ReturnIn(decided) ELSE decided

\* C31: however two requests interleave, each one's attached user, decision
\* and cookie changes are those of the same request run alone, and the user
\* attached is none or the one its own cookie's session belongs to.
C31_NoInterference ==
  \A i \in Requests :
    /\ inflight[i].pc = "done"
         => /\ sent[i] # NoSent
            /\ inflight[i].locals = Alone(sent[i]).locals
            /\ inflight[i].response = Alone(sent[i]).response
            /\ inflight[i].setCookies = Alone(sent[i]).setCookies
    /\ inflight[i].locals.user \in {NoUser, sessionUser(tokenOf(sent[i].cookie))}
    /\ inflight[i].locals.sessionToken \in {"", tokenOf(sent[i].cookie)}
    /\ sent[i] = NoSent => inflight[i] = NoContext
C31_Witness ==
  /\ inflight[1].pc = "done"
  /\ inflight[2].pc = "done"
  /\ sent[1].cookie = <<"t1">>
  /\ sent[2].cookie = <<"t2">>
  /\ sent[1].pathname = sent[2].pathname
  /\ inflight[1].locals.user = sessionUser("t1")
  /\ inflight[2].locals.user = sessionUser("t2")
  /\ inflight[1].response.type = "redirect"
  /\ inflight[2].response.type = "redirect"
  /\ inflight[1].response # inflight[2].response

\* ---- backend calls that overlap
\* The record of the sign-in that issued token t.
IssueOf(t) == CHOOSE i \in issued : i.token = t
\* Token t was issued and its session has not expired.
LiveToken(t) ==
  /\ \E i \in issued : i.token = t
  /\ now < IssueOf(t).at + SESSION_TTL_DAYS
\* Both calls have finished, the one being a op1 and the other a op2 of the
\* same token, issued before either began.
BothDone(op1, op2) ==
  /\ tasks[1].pc = "done"
  /\ tasks[2].pc = "done"
  /\ tasks[1].token = tasks[2].token
  /\ tasks[1].known
  /\ tasks[2].known
  /\ \/ tasks[1].op = op1 /\ tasks[2].op = op2
     \/ tasks[1].op = op2 /\ tasks[2].op = op1
\* The row of token t is as createSession wrote it, but for last_seen_at.
RowKept(t) ==
  \E s \in sessions :
    /\ s.token = t
    /\ sessionsOf(t) = {s}
    /\ s.user_id = IssueOf(t).user_id
    /\ s.created_at = IssueOf(t).at
    /\ s.expires_at = IssueOf(t).at + SESSION_TTL_DAYS

\* The row the sign-in recorded in i inserted.
sessionRowAt(i) ==
  [token |-> i.token, user_id |-> i.user_id, created_at |-> i.at,
   expires_at |-> i.at + SESSION_TTL_DAYS, last_seen_at |-> i.at]

C33_RevokeRaceClean ==
  /\ \A t \in revoked : sessionsOf(t) = {}
  /\ (BothDone("resolve", "revoke") /\ LiveToken(tasks[1].token))
       => /\ \A k \in Tasks :
               tasks[k].op = "resolve" =>
                 \/ tasks[k].result.kind = "no_such_session"
                 \/ /\ tasks[k].result.kind = "user"
                    /\ tasks[k].result.user.id = IssueOf(tasks[1].token).user_id
          /\ sessionsOf(tasks[1].token) = {}
          /\ tasks[1].token \in revoked
          /\ \A i \in issued :
               i.token # tasks[1].token =>
                 sessionRowAt(i) \in sessions /\ sessionsOf(i.token) = { sessionRowAt(i) }
C33_Witness ==
  /\ BothDone("resolve", "revoke")
  /\ LiveToken(tasks[1].token)
  /\ \E k \in Tasks :
       /\ tasks[k].op = "resolve"
       /\ tasks[k].result.kind = "user"
       /\ tasks[k].wrote >= 0
  /\ sessionsOf(tasks[1].token) = {}
  /\ \E i \in issued : i.token # tasks[1].token /\ i.user_id # IssueOf(tasks[1].token).user_id

====
